---- MODULE Spec2Model ----
(***************************************************************************)
(* Retrieval orchestration engine of ragrun.                               *)
(*                                                                         *)
(* Part I  : the completion reliability wrapper (_chat_with_retry on top   *)
(*           of retry_async and DeepSeekClient.chat).                      *)
(* Part II : the branch fan-out of the worldview graphs.                   *)
(***************************************************************************)
EXTENDS Integers, Sequences, FiniteSets, TLC

(***************************************************************************)
(* Bounds of the model.                                                    *)
(***************************************************************************)
MaxRetries == 5
MaxLen == 2
MaxMinChars == 3
MaxBranches == 2
MaxWidth == 2

(* Characters the model draws response texts from: whitespace, a letter,   *)
(* one sentence-final punctuation mark and one closing bracket.            *)
Alphabet == {" ", "a", ".", ")"}

(***************************************************************************)
(* Text helpers (Python str.strip / rstrip / lstrip, SENTENCE_END_RE).     *)
(***************************************************************************)
Whitespace == {" "}
SentencePunct == {".", "!", "?"}
ClosingMarks == {"\"", "'", ")", "]"}

RECURSIVE LStrip(_)
LStrip(s) == IF s = <<>> THEN s
             ELSE IF Head(s) \in Whitespace THEN LStrip(Tail(s)) ELSE s

RECURSIVE RStrip(_)
RStrip(s) == IF s = <<>> THEN s
             ELSE IF s[Len(s)] \in Whitespace THEN RStrip(SubSeq(s, 1, Len(s) - 1)) ELSE s

Strip(s) == LStrip(RStrip(s))

AllWhitespace(s) == \A i \in 1..Len(s) : s[i] \in Whitespace

SentenceEndSearch_Never(t) == FALSE

(* re.search of  [.!?][closing]?\s*$  *)
SentenceEndSearch(t) ==
    \E i \in 1..Len(t) :
        /\ t[i] \in SentencePunct
        /\ \/ AllWhitespace(SubSeq(t, i + 1, Len(t)))
           \/ /\ i + 1 <= Len(t)
              /\ t[i + 1] \in ClosingMarks
              /\ AllWhitespace(SubSeq(t, i + 2, Len(t)))

RECURSIVE StringsUpTo(_)
StringsUpTo(n) == IF n = 0 THEN {<<>>}
                  ELSE LET shorter == StringsUpTo(n - 1)
                       IN shorter \cup {Append(s, c) : s \in {x \in shorter : Len(x) = n - 1}, c \in Alphabet}

Contents == StringsUpTo(MaxLen)

(***************************************************************************)
(* Errors.  An error value carries its class, its message, the HTTP status *)
(* of its response attribute (0 when it has none) and the attempt of       *)
(* retry_async's callable that raised it.                                  *)
(***************************************************************************)
None == -1
(* A local that holds no text (not yet assigned, or its frame is gone). *)
Unset == <<"unset">>
NoError == [cls |-> "none", message |-> "", status |-> 0, attempt |-> 0]

MsgEmptyContent == "DeepSeek returned empty content"
MsgNoChoices == "DeepSeek returned no choices"

Lower(m) == CASE m = MsgEmptyContent -> "deepseek returned empty content"
              [] m = MsgNoChoices -> "deepseek returned no choices"
              [] OTHER -> m

Statuses == {404, 499, 500, 503}

(* What one HTTP round trip of DeepSeekClient.chat can produce. *)
ChatResponses ==
    [type : {"http_error"}, status : Statuses, content : {<<>>}]
      \cup [type : {"transport_error"}, status : {0}, content : {<<>>}]
      \cup [type : {"no_choices"}, status : {0}, content : {<<>>}]
      \cup [type : {"content"}, status : {0}, content : Contents]

(* The chat clients of the model: the real one, and one whose every call   *)
(* gets a response without content.                                        *)
Clients == {"DeepSeekClient", "AlwaysEmptyClient"}

ResponsesOf(c) ==
    IF c = "AlwaysEmptyClient"
    THEN [type : {"content"}, status : {0}, content : {<<>>}]
    ELSE ChatResponses

(* DeepSeekClient.chat: the error it raises for a response, or NoError. *)
ChatError(r, n) ==
    CASE r.type = "http_error" ->
            [cls |-> "HTTPStatusError", message |-> "status error", status |-> r.status, attempt |-> n]
      [] r.type = "transport_error" ->
            [cls |-> "ConnectError", message |-> "connection failed", status |-> 0, attempt |-> n]
      [] r.type = "no_choices" ->
            [cls |-> "RuntimeError", message |-> MsgNoChoices, status |-> 0, attempt |-> n]
      [] r.type = "content" /\ r.content = <<>> ->
            [cls |-> "RuntimeError", message |-> MsgEmptyContent, status |-> 0, attempt |-> n]
      [] OTHER -> NoError

(* DeepSeekClient.chat: the text it returns when it does not raise. *)
ChatText(r) == Strip(r.content)

IncompleteError(msg, n) ==
    [cls |-> "RetryableCompletionError", message |-> msg, status |-> 0, attempt |-> n]

_is_retryable_any_http_error(e) ==
    IF e.cls = "RetryableCompletionError" THEN TRUE
    ELSE IF Lower(e.message) = "deepseek returned empty content" THEN TRUE
    ELSE IF Lower(e.message) = "deepseek returned no choices" THEN TRUE
    ELSE e.status # 0 /\ e.status >= 400

_is_retryable_llm_error(e) ==
    IF e.cls = "RetryableCompletionError" THEN TRUE
    ELSE IF Lower(e.message) = "deepseek returned empty content" THEN TRUE
    ELSE IF Lower(e.message) = "deepseek returned no choices" THEN TRUE
    ELSE e.status # 0 /\ e.status >= 500

(***************************************************************************)
(* State.                                                                  *)
(***************************************************************************)
VARIABLES
    (* _chat_with_retry: arguments *)
    client, retries, min_chars, require_sentence_end,
    (* _chat_with_retry: locals *)
    now, nonce, result, completion, lastSent,
    (* retry_async: locals and position *)
    attempt, delay, exc, cpc,
    (* outcome of the call *)
    returned, raised,
    (* observation of the run *)
    runs, chatCalls, sleeps, firstNonces

chatVars == <<client, retries, min_chars, require_sentence_end, now, nonce, result, completion, lastSent,
              attempt, delay, exc, cpc, returned, raised,
              runs, chatCalls, sleeps, firstNonces>>

VARIABLES
    (* graph run: which graph, and its arguments *)
    graph, worldviews, max_concurrency,
    (* graph run: position and locals *)
    gpc, semaphore, tpc, locals, answers, results_map,
    (* graph run: the event-log sink, the default one or one the caller injects *)
    recorder,
    (* outcome of the run *)
    outcome,
    (* observation of the run *)
    finished, unitRuns, queued

graphVars == <<graph, worldviews, max_concurrency, gpc, semaphore, tpc, locals, answers,
               results_map, recorder, outcome, finished, unitRuns, queued>>

VARIABLES
    (* _retrieve_with_widen: arguments *)
    sparse_only, hybrid, k_base, widen_to, k_final, cfg,
    (* the ambient settings and the document store *)
    settings, qdrant_client,
    (* _retrieve_with_widen and _run_path: position and locals *)
    wpc, mode, pass, hits, reranked, widened_hits, base, chosen,
    (* observation of the run *)
    first_pass, calls, ingestions

cascadeVars == <<sparse_only, hybrid, k_base, widen_to, k_final, cfg, settings, qdrant_client,
                 wpc, mode, pass, hits, reranked, widened_hits, base, chosen, first_pass, calls,
                 ingestions>>

VARIABLES
    (* one call of a retrieval helper: the call and its arguments, what it *)
    (* returned or raised, and the calls it made to the embedding service  *)
    (* and the document store                                              *)
    op, ret, effects

primVars == <<op, ret, effects>>

VARIABLES
    (* the HTTP layer: the request being served and the state of the       *)
    (* services behind it, the last response, and the failures reported so *)
    (* far, each with the status it was reported with                      *)
    request, env, response, reported

apiVars == <<request, env, response, reported>>

VARIABLES
    (* the world around a run: the events the event log has recorded, the  *)
    (* prompt files that are missing on disk, and the points of the vector *)
    (* store collection                                                    *)
    events, missing_prompts, points

worldVars == <<events, missing_prompts, points>>

vars == <<chatVars, graphVars, cascadeVars, primVars, apiVars, worldVars>>

(* The caller's messages; their content is never inspected by the wrapper. *)
messages == <<[role |-> "system", content |-> "prompt"], [role |-> "user", content |-> "question"]>>
completion_instruction == "instruction"

NonceMessage(n) == [role |-> "system", content |-> <<"nonce", n>>]

(* retries=max(0, int(retries)) *)
EffectiveRetries == IF retries > 0 THEN retries ELSE 0

base_delay == 1000
max_delay == 8000
jitter == 200
(* random.uniform(-jitter, jitter), in thousandths *)
JitterSamples == {0 - jitter, 0, jitter}

Min(a, b) == IF a < b THEN a ELSE b
Max(a, b) == IF a > b THEN a ELSE b

RECURSIVE Pow2(_)
Pow2(n) == IF n = 0 THEN 1 ELSE 2 * Pow2(n - 1)

BackoffDelay_Uncapped(att, j) ==
    LET d0 == base_delay * Pow2(att - 1)
        d1 == IF jitter # 0 THEN (d0 * (1000 + j)) \div 1000 ELSE d0
    IN Max(0, d1)

(* retry_async: the delay before the next attempt, in milliseconds. *)
BackoffDelay(att, j) ==
    LET d0 == Min(max_delay, base_delay * Pow2(att - 1))
        d1 == IF jitter # 0 THEN (d0 * (1000 + j)) \div 1000 ELSE d0
    IN Max(0, d1)

_is_incomplete_ignoring_min_chars(text) ==
    LET stripped == Strip(text)
    IN IF stripped = <<>> THEN TRUE
       ELSE IF require_sentence_end /\ ~SentenceEndSearch(stripped) THEN TRUE
       ELSE FALSE

_is_incomplete(text) ==
    LET stripped == Strip(text)
    IN IF stripped = <<>> THEN TRUE
       ELSE IF require_sentence_end /\ ~SentenceEndSearch(stripped) THEN TRUE
       ELSE IF min_chars # None /\ Len(stripped) < min_chars THEN TRUE
       ELSE FALSE

Combine_NoSeparator(first, second) == Strip(RStrip(first) \o LStrip(second))

(* combined = f"{result.rstrip()} {completion.lstrip()}".strip() *)
Combine(first, second) == Strip(RStrip(first) \o <<" ">> \o LStrip(second))

(***************************************************************************)
(* The part of the state a specification does not exercise stays at rest.  *)
(***************************************************************************)
NoOutcome == [status |-> "none", worldviews |-> <<>>, error |-> ""]

(* RetrievalOutcome, before there is one, and the result of _run_path *)
NoRetrieval == [status |-> "none", hits |-> <<>>, widened_hits |-> <<>>, mode |-> "", error |-> ""]
NoPath == [hits |-> <<>>, widened_hits |-> <<>>, mode_label |-> "", first_pass |-> <<>>]

(* A retrieval helper, before it is called and before it has returned *)
NoCall == [name |-> "none"]
NoReturn == [status |-> "none"]

ChatInit ==
    /\ client \in Clients
    /\ retries \in (0 - 1)..MaxRetries
    /\ min_chars \in {None} \cup 1..MaxMinChars
    /\ require_sentence_end \in BOOLEAN
    /\ now = 1
    /\ nonce = 0
    /\ result = Unset
    /\ completion = Unset
    /\ lastSent = <<>>
    /\ attempt = 0
    /\ delay = 0
    /\ exc = NoError
    /\ cpc = "run"
    /\ returned = <<>>
    /\ raised = NoError
    /\ runs = 0
    /\ chatCalls = 0
    /\ sleeps = 0
    /\ firstNonces = <<>>
    (* the graph part of the state is at rest *)
    /\ graph = "none"
    /\ worldviews = <<>>
    /\ max_concurrency = 0
    /\ gpc = "idle"
    /\ semaphore = [value |-> 0, waiters |-> <<>>]
    /\ tpc = <<>>
    /\ locals = <<>>
    /\ answers = <<>>
    /\ results_map = <<>>
    /\ recorder = "GraphEventRecorder"
    /\ outcome = NoOutcome
    /\ finished = <<>>
    /\ unitRuns = <<>>
    /\ queued = {}
    (* the retrieval part of the state is at rest *)
    /\ sparse_only = FALSE
    /\ hybrid = FALSE
    /\ k_base = 0
    /\ widen_to = 0
    /\ k_final = 0
    /\ cfg = [hybrid_k_dense |-> 0, hybrid_k_sparse |-> 0, hybrid_k_fused |-> 0]
    /\ settings = [use_hybrid_retrieval |-> FALSE, hybrid_fallback_on_thin |-> FALSE]
    /\ qdrant_client = [dense |-> <<>>, sparse |-> <<>>]
    /\ wpc = "idle"
    /\ mode = "none"
    /\ pass = 0
    /\ hits = <<>>
    /\ reranked = <<>>
    /\ widened_hits = <<>>
    /\ base = NoPath
    /\ chosen = NoRetrieval
    /\ first_pass = <<>>
    /\ calls = <<>>
    /\ ingestions = 0
    (* no event is recorded, no prompt file is missing, the collection is empty *)
    /\ events = {}
    /\ missing_prompts = {}
    /\ points = {}
    (* no request is being served *)
    /\ request = [endpoint |-> "none"]
    /\ env = [backend |-> "up", store |-> "up"]
    /\ response = [status |-> 0, detail |-> ""]
    /\ reported = {}
    (* no retrieval helper has been called *)
    /\ op = NoCall
    /\ ret = NoReturn
    /\ effects = <<>>

HandleFailure_OffByOne(e) ==
    /\ attempt' = attempt + 1
    /\ IF attempt + 1 >= EffectiveRetries \/ ~_is_retryable_llm_error(e)
       THEN /\ cpc' = "raised"
            /\ raised' = e
            /\ exc' = e
            /\ UNCHANGED <<delay, sleeps>>
       ELSE /\ \E j \in JitterSamples : delay' = BackoffDelay(attempt + 1, j)
            /\ cpc' = "sleep"
            /\ exc' = e
            /\ sleeps' = sleeps + 1
            /\ UNCHANGED raised

(* retry_async, lines 28-50: the except clause for error e of the callable. *)
HandleFailure(e) ==
    /\ attempt' = attempt + 1
    /\ IF attempt + 1 > EffectiveRetries \/ ~_is_retryable_llm_error(e)
       THEN /\ cpc' = "raised"
            /\ raised' = e
            /\ exc' = e
            /\ UNCHANGED <<delay, sleeps>>
       ELSE /\ \E j \in JitterSamples : delay' = BackoffDelay(attempt + 1, j)
            /\ cpc' = "sleep"
            /\ exc' = e
            /\ sleeps' = sleeps + 1
            /\ UNCHANGED raised

Return(text, prompt) ==
    /\ cpc' = "returned"
    /\ returned' = <<text, prompt>>
    /\ UNCHANGED <<attempt, delay, exc, raised, sleeps>>

(* _run_once up to and including the first chat call and what follows it   *)
(* until the next await.                                                   *)
FirstChat ==
    /\ cpc = "run"
    /\ \E r \in ResponsesOf(client) :
         LET outbound_messages == <<NonceMessage(nonce)>> \o messages
             n == runs + 1
             e == ChatError(r, n)
             text == ChatText(r)
         IN /\ runs' = n
            /\ chatCalls' = chatCalls + 1
            /\ firstNonces' = Append(firstNonces, nonce)
            /\ IF e # NoError
               THEN /\ HandleFailure(e)
                    /\ lastSent' = outbound_messages
                    /\ UNCHANGED <<now, result, returned>>
               ELSE IF require_sentence_end /\ ~SentenceEndSearch(Strip(text))
               THEN /\ cpc' = "continuation"
                    /\ result' = text
                    /\ now' = now + 1
                    /\ lastSent' = <<NonceMessage(now)>> \o messages
                                     \o <<[role |-> "assistant", content |-> text],
                                          [role |-> "user", content |-> completion_instruction]>>
                    /\ UNCHANGED <<attempt, delay, exc, returned, raised, sleeps>>
               ELSE IF _is_incomplete(text)
               THEN /\ HandleFailure(IncompleteError("Response too short or incomplete", n))
                    /\ result' = text
                    /\ lastSent' = outbound_messages
                    /\ UNCHANGED <<now, returned>>
               ELSE /\ Return(text, outbound_messages)
                    /\ result' = text
                    /\ lastSent' = outbound_messages
                    /\ UNCHANGED now
    /\ UNCHANGED <<client, retries, min_chars, require_sentence_end, nonce, completion>>
    /\ UNCHANGED graphVars
    /\ UNCHANGED cascadeVars
    /\ UNCHANGED primVars
    /\ UNCHANGED apiVars
    /\ UNCHANGED worldVars

(* The continuation call of _run_once and the completeness check. *)
ContinuationChat ==
    /\ cpc = "continuation"
    /\ \E r \in ResponsesOf(client) :
         LET e == ChatError(r, runs)
             text == ChatText(r)
             combined == Combine(result, text)
         IN /\ chatCalls' = chatCalls + 1
            /\ IF e # NoError
               THEN /\ HandleFailure(e)
                    /\ UNCHANGED <<completion, returned>>
               ELSE IF _is_incomplete(combined)
               THEN /\ HandleFailure(IncompleteError("Completion produced an incomplete response", runs))
                    /\ completion' = text
                    /\ UNCHANGED returned
               ELSE /\ Return(combined, lastSent)
                    /\ completion' = text
    /\ UNCHANGED <<client, retries, min_chars, require_sentence_end, now, nonce, result,
                   lastSent, runs, firstNonces>>
    /\ UNCHANGED graphVars
    /\ UNCHANGED cascadeVars
    /\ UNCHANGED primVars
    /\ UNCHANGED apiVars
    /\ UNCHANGED worldVars

(* retry_async, line 50: asyncio.sleep(delay) is over, the loop goes round.  *)
(* Leaving the except clause drops exc and, with its traceback, the locals *)
(* of the _run_once invocation that raised; delay is assigned anew before  *)
(* it is read again.                                                       *)
Wake ==
    /\ cpc = "sleep"
    /\ cpc' = "run"
    /\ exc' = NoError
    /\ result' = Unset
    /\ completion' = Unset
    /\ lastSent' = <<>>
    /\ delay' = 0
    /\ UNCHANGED <<client, retries, min_chars, require_sentence_end, now, nonce,
                   attempt, returned, raised,
                   runs, chatCalls, sleeps, firstNonces>>
    /\ UNCHANGED graphVars
    /\ UNCHANGED cascadeVars
    /\ UNCHANGED primVars
    /\ UNCHANGED apiVars
    /\ UNCHANGED worldVars

ChatNext == FirstChat \/ ContinuationChat \/ Wake

SpecChat == ChatInit /\ [][ChatNext]_vars

(***************************************************************************)
(* Part II: the branch fan-out of run_concept_explain_worldviews_graph and *)
(* run_translate_to_worldview_graph.                                       *)
(***************************************************************************)
ConceptGraph == "concept_explain_worldviews"
TranslateGraph == "translate_to_worldview"

(* Texts a chat step can produce for a branch. *)
Texts == {"t1", "t2"}

RECURSIVE MaxKey(_)
MaxKey(w) == IF w = <<>> THEN 0 ELSE Max(w[Len(w)], MaxKey(SubSeq(w, 1, Len(w) - 1)))

(* The worldview lists of the model: branch keys are numbered in the order *)
(* of their first occurrence; a key may occur more than once.              *)
RECURSIVE WorldviewLists(_)
WorldviewLists(n) ==
    IF n = 0 THEN {<<>>}
    ELSE LET shorter == WorldviewLists(n - 1)
         IN shorter \cup
            {Append(p[1], p[2]) :
                p \in {q \in shorter \X (1..n) : Len(q[1]) = n - 1 /\ q[2] <= MaxKey(q[1]) + 1}}

BranchSteps_HowBeforeContext2(g) ==
    IF g = ConceptGraph
    THEN <<"ctx1", "ev_ctx1", "what", "ev_what", "how", "ctx2", "ev_ctx2", "ev_how">>
    ELSE <<"ctx1", "ev_ctx1", "what", "ev_what", "how", "ctx2", "ev_ctx2", "ev_how">>

(* The awaits of one branch, in program order. *)
BranchSteps(g) ==
    IF g = ConceptGraph
    THEN <<"ctx1", "ev_ctx1", "what", "ev_what", "ctx2", "how", "ev_ctx2", "ev_how">>
    ELSE <<"ctx1", "ev_ctx1", "what", "ev_what", "ctx2", "ev_ctx2", "how", "ev_how">>

StepNames == {"ctx1", "ev_ctx1", "what", "ev_what", "ctx2", "how", "ev_ctx2", "ev_how"}

(* Retrieval and chat calls can raise. *)
RaisingSteps == {"ctx1", "what", "ctx2", "how"}

EventSteps == StepNames \ RaisingSteps

(* GraphEventRecorder.record_event logs its failures and returns; a sink   *)
(* the caller passes as event_recorder may raise from record_event.        *)
Recorders == {"GraphEventRecorder", "RaisingRecorder"}

StepError == "step failed"
SinkError == "record_event failed"

(* _record_event awaits recorder.record_event without a try block. *)
_record_event_raises(r) == r = "RaisingRecorder"

StepIndex(g, st) == CHOOSE k \in 1..Len(BranchSteps(g)) : BranchSteps(g)[k] = st

NextStep(g, st) ==
    IF StepIndex(g, st) = Len(BranchSteps(g)) THEN "done"
    ELSE BranchSteps(g)[StepIndex(g, st) + 1]

Branches == 1..Len(worldviews)

PendingResult == [kind |-> "pending", worldview |-> 0, main_points |-> "", how_details |-> ""]
BranchException(err) ==
    [kind |-> "exception", worldview |-> 0, main_points |-> "", how_details |-> "", error |-> err]

NewLocals == [main_points |-> "", how_details |-> "", how_prompt |-> "", started |-> <<>>, ended |-> <<>>]

(* The branch reaches the await of step st: a retrieval or chat step       *)
(* starts, and build_worldview_how_prompt(main_points = main_points) makes *)
(* the prompt of the how step.                                             *)
EnterStep(l, st) ==
    IF st \notin RaisingSteps THEN l
    ELSE [l EXCEPT !.started = Append(@, st),
                   !.how_prompt = IF st = "how" THEN l.main_points ELSE @]

WorldviewAnswer(wv, mp, how) ==
    [kind |-> "answer", worldview |-> wv, main_points |-> mp, how_details |-> how]

(* asyncio.Semaphore(max_concurrency) resp. asyncio.Semaphore(max(1, int(max_concurrency))) *)
SemaphoreWidth(g, mc) == IF g = TranslateGraph THEN Max(1, mc) ELSE mc

SemLocked_Never(sem) == FALSE

(* Semaphore.locked(): no free slot, or somebody is queued for one. *)
SemLocked(sem) == sem.value = 0 \/ sem.waiters # <<>>

SemRelease_Never(sem) == sem

(* Semaphore.release() at the exit of `async with semaphore` *)
SemRelease(sem) == [sem EXCEPT !.value = sem.value + 1]

(* operator.or_(results_map, {ans.worldview: ans}) on an insertion-ordered dict *)
DictOr(d, ans) ==
    IF \E k \in 1..Len(d) : d[k].worldview = ans.worldview
    THEN [k \in 1..Len(d) |-> IF d[k].worldview = ans.worldview THEN ans ELSE d[k]]
    ELSE Append(d, ans)

Reduce_KeepFailures(d, ans) == DictOr(d, ans)

(* Body of the loop over the gathered answers. *)
Reduce(d, ans) == IF ans.kind = "exception" THEN d ELSE DictOr(d, ans)

RECURSIVE MergeFrom(_, _, _)
MergeFrom(list, k, d) ==
    IF k > Len(list) THEN d ELSE MergeFrom(list, k + 1, Reduce(d, list[k]))

MergeAnswers_CompletionOrder(list) ==
    MergeFrom([k \in 1..Len(list) |-> list[finished[k]]], 1, <<>>)

(* The loop over the result of asyncio.gather, which is in task order. *)
MergeAnswers(list) == MergeFrom(list, 1, <<>>)

GraphInit ==
    /\ graph \in {ConceptGraph, TranslateGraph}
    /\ worldviews \in WorldviewLists(MaxBranches)
    /\ max_concurrency \in 0..MaxWidth
    /\ recorder \in Recorders
    /\ gpc = "entry"
    /\ semaphore = [value |-> 0, waiters |-> <<>>]
    /\ tpc = <<>>
    /\ locals = <<>>
    /\ answers = <<>>
    /\ results_map = <<>>
    /\ outcome = NoOutcome
    /\ finished = <<>>
    /\ unitRuns = <<>>
    /\ queued = {}
    (* the retrieval part of the state is at rest *)
    /\ sparse_only = FALSE
    /\ hybrid = FALSE
    /\ k_base = 0
    /\ widen_to = 0
    /\ k_final = 0
    /\ cfg = [hybrid_k_dense |-> 0, hybrid_k_sparse |-> 0, hybrid_k_fused |-> 0]
    /\ settings = [use_hybrid_retrieval |-> FALSE, hybrid_fallback_on_thin |-> FALSE]
    /\ qdrant_client = [dense |-> <<>>, sparse |-> <<>>]
    /\ wpc = "idle"
    /\ mode = "none"
    /\ pass = 0
    /\ hits = <<>>
    /\ reranked = <<>>
    /\ widened_hits = <<>>
    /\ base = NoPath
    /\ chosen = NoRetrieval
    /\ first_pass = <<>>
    /\ calls = <<>>
    /\ ingestions = 0
    (* no event is recorded, no prompt file is missing, the collection is empty *)
    /\ events = {}
    /\ missing_prompts = {}
    /\ points = {}
    (* no request is being served *)
    /\ request = [endpoint |-> "none"]
    /\ env = [backend |-> "up", store |-> "up"]
    /\ response = [status |-> 0, detail |-> ""]
    /\ reported = {}
    (* no retrieval helper has been called *)
    /\ op = NoCall
    /\ ret = NoReturn
    /\ effects = <<>>
    (* the wrapper part of the state is at rest *)
    /\ client = "DeepSeekClient"
    /\ retries = 0
    /\ min_chars = None
    /\ require_sentence_end = TRUE
    /\ now = 0
    /\ nonce = 0
    /\ result = Unset
    /\ completion = Unset
    /\ lastSent = <<>>
    /\ attempt = 0
    /\ delay = 0
    /\ exc = NoError
    /\ cpc = "idle"
    /\ returned = <<>>
    /\ raised = NoError
    /\ runs = 0
    /\ chatCalls = 0
    /\ sleeps = 0
    /\ firstNonces = <<>>

(* One record_event call that went through: the step, the branch (0 for   *)
(* step 1 of the concept graph), and, for the concept_retrieval event, the *)
(* errors and metadata["empty_hits"].                                      *)
GraphEvent(step, branch, errors, empty_hits) ==
    [step |-> step, branch |-> branch, errors |-> errors, empty_hits |-> empty_hits]

(* The events step 1 of the concept graph can have recorded when it ends:  *)
(* both when it hands over to the fan-out, none when the sink raised, and  *)
(* none or the concept_retrieval event when a call failed.                 *)
Stage1Events(failed, err) ==
    IF ~failed
    THEN {{GraphEvent("concept_retrieval", 0, <<>>, FALSE),
           GraphEvent("concept_reasoning", 0, <<>>, FALSE)}}
    ELSE IF err = SinkError THEN {{}}
    ELSE {{}, {GraphEvent("concept_retrieval", 0, <<>>, FALSE)}}

Raise(err) ==
    /\ gpc' = "done"
    /\ outcome' = [status |-> "raised", worldviews |-> <<>>, error |-> err]

(* semaphore = asyncio.Semaphore(...); tasks = [asyncio.create_task(...)] *)
CreateTasks ==
    /\ semaphore' = [value |-> SemaphoreWidth(graph, max_concurrency), waiters |-> <<>>]
    /\ tpc' = [i \in Branches |-> "created"]
    /\ locals' = [i \in Branches |-> NewLocals]
    /\ answers' = [i \in Branches |-> PendingResult]
    /\ unitRuns' = [i \in Branches |-> 0]
    /\ gpc' = "gather"
    /\ UNCHANGED outcome

(* The prompt files ensure_worldview_prompts_exist requires, in the order  *)
(* it looks for them.                                                      *)
REQUIRED_PROMPTS == <<"concept-explain-what.prompt", "concept-explain-how.prompt">>

(* str(prompts_dir / name) *)
PromptPath(worldview, name) ==
    "sigrid-von-gleich/worldviews/" \o ToString(worldview) \o "/prompts/" \o name

RECURSIVE JoinComma(_)
JoinComma(l) ==
    IF l = <<>> THEN ""
    ELSE IF Len(l) = 1 THEN l[1]
    ELSE l[1] \o ", " \o JoinComma(Tail(l))

(* missing = [str(p) for p in required if not p.is_file()] *)
MissingPrompts(worldview, required) ==
    LET names == SelectSeq(required, LAMBDA name : <<worldview, name>> \in missing_prompts)
    IN [k \in 1..Len(names) |-> PromptPath(worldview, names[k])]

ensure_worldview_prompts_exist_WhatOnly(worldview) ==
    IF MissingPrompts(worldview, <<REQUIRED_PROMPTS[1]>>) = <<>> THEN ""
    ELSE "Missing sigrid-von-gleich worldview prompt(s): "
         \o JoinComma(MissingPrompts(worldview, <<REQUIRED_PROMPTS[1]>>))

(* The ValueError ensure_worldview_prompts_exist raises, "" when both      *)
(* files are there.                                                        *)
ensure_worldview_prompts_exist(worldview) ==
    IF MissingPrompts(worldview, REQUIRED_PROMPTS) = <<>> THEN ""
    ELSE "Missing sigrid-von-gleich worldview prompt(s): "
         \o JoinComma(MissingPrompts(worldview, REQUIRED_PROMPTS))

(* for wv in worldviews: ensure_worldview_prompts_exist(worldview=wv) --   *)
(* the error of the first worldview that has one, "" when none has.        *)
RECURSIVE PromptCheck(_)
PromptCheck(wvs) ==
    IF wvs = <<>> THEN ""
    ELSE IF ensure_worldview_prompts_exist(Head(wvs)) # ""
    THEN ensure_worldview_prompts_exist(Head(wvs))
    ELSE PromptCheck(Tail(wvs))

(* Argument checks at the head of both graphs; the translate graph checks  *)
(* the prompt files of its worldviews and goes on to build its tasks       *)
(* without an await in between.                                            *)
Validate ==
    /\ gpc = "entry"
    /\ IF worldviews = <<>>
       THEN /\ Raise("worldviews must not be empty")
            /\ UNCHANGED <<semaphore, tpc, locals, answers, unitRuns>>
       ELSE IF graph = ConceptGraph
       THEN /\ gpc' = "stage1"
            /\ UNCHANGED <<semaphore, tpc, locals, answers, unitRuns, outcome>>
       ELSE IF PromptCheck(worldviews) # ""
       THEN /\ Raise(PromptCheck(worldviews))
            /\ UNCHANGED <<semaphore, tpc, locals, answers, unitRuns>>
       ELSE CreateTasks
    /\ UNCHANGED <<recorder, graph, worldviews, max_concurrency, results_map, finished, queued>>
    /\ UNCHANGED chatVars
    /\ UNCHANGED cascadeVars
    /\ UNCHANGED primVars
    /\ UNCHANGED apiVars
    /\ UNCHANGED worldVars

(* Step 1 of the concept graph (concept retrieval and concept reasoning):  *)
(* it either raises or hands over to the fan-out.                          *)
ConceptStage1 ==
    /\ gpc = "stage1"
    /\ \E err \in {"", StepError} \cup (IF _record_event_raises(recorder) THEN {SinkError} ELSE {}) :
         IF err = "" THEN CreateTasks
         ELSE /\ Raise(err)
              /\ UNCHANGED <<semaphore, tpc, locals, answers, unitRuns>>
    /\ UNCHANGED <<recorder, graph, worldviews, max_concurrency, results_map, finished, queued>>
    /\ UNCHANGED chatVars
    /\ UNCHANGED cascadeVars
    /\ UNCHANGED primVars
    /\ UNCHANGED apiVars
    /\ \E evs \in Stage1Events(outcome'.status = "raised", outcome'.error) : events' = events \cup evs
    /\ UNCHANGED <<missing_prompts, points>>

(* A task runs for the first time, in creation order, and reaches          *)
(* `async with semaphore`.                                                 *)
StartTask(i) ==
    /\ gpc = "gather"
    /\ tpc[i] = "created"
    /\ \A k \in Branches : k < i => tpc[k] # "created"
    /\ IF ~SemLocked(semaphore)
       THEN /\ semaphore' = [semaphore EXCEPT !.value = semaphore.value - 1]
            /\ tpc' = [tpc EXCEPT ![i] = BranchSteps(graph)[1]]
            /\ locals' = [locals EXCEPT ![i] = EnterStep(@, BranchSteps(graph)[1])]
            /\ unitRuns' = [unitRuns EXCEPT ![i] = unitRuns[i] + 1]
            /\ UNCHANGED queued
       ELSE /\ semaphore' = [semaphore EXCEPT !.waiters = Append(semaphore.waiters, i)]
            /\ tpc' = [tpc EXCEPT ![i] = "waiting"]
            /\ queued' = queued \cup {i}
            /\ UNCHANGED <<unitRuns, locals>>
    /\ UNCHANGED <<recorder, graph, worldviews, max_concurrency, gpc, answers, results_map,
                   outcome, finished>>
    /\ UNCHANGED chatVars
    /\ UNCHANGED cascadeVars
    /\ UNCHANGED primVars
    /\ UNCHANGED apiVars
    /\ UNCHANGED worldVars

(* The longest waiting task gets the slot a release has freed. *)
AcquireAfterWait(i) ==
    /\ gpc = "gather"
    /\ tpc[i] = "waiting"
    /\ semaphore.waiters # <<>>
    /\ Head(semaphore.waiters) = i
    /\ semaphore.value > 0
    /\ semaphore' = [value |-> semaphore.value - 1, waiters |-> Tail(semaphore.waiters)]
    /\ tpc' = [tpc EXCEPT ![i] = BranchSteps(graph)[1]]
    /\ locals' = [locals EXCEPT ![i] = EnterStep(@, BranchSteps(graph)[1])]
    /\ unitRuns' = [unitRuns EXCEPT ![i] = unitRuns[i] + 1]
    /\ UNCHANGED <<recorder, graph, worldviews, max_concurrency, gpc, answers, results_map,
                   outcome, finished, queued>>
    /\ UNCHANGED chatVars
    /\ UNCHANGED cascadeVars
    /\ UNCHANGED primVars
    /\ UNCHANGED apiVars
    /\ UNCHANGED worldVars

(* The await a branch is suspended in returns; the branch runs on to its   *)
(* next await, or to its return statement.                                 *)
StepReturns(i) ==
    /\ gpc = "gather"
    /\ tpc[i] \in StepNames
    /\ \E t \in Texts :
         LET st == tpc[i]
             got == IF st = "what" THEN [locals[i] EXCEPT !.main_points = t]
                    ELSE IF st = "how" THEN [locals[i] EXCEPT !.how_details = t]
                    ELSE locals[i]
             fin == IF st \in RaisingSteps THEN [got EXCEPT !.ended = Append(@, st)] ELSE got
             nl == IF NextStep(graph, st) = "done" THEN fin ELSE EnterStep(fin, NextStep(graph, st))
         IN /\ st # "what" => t = "t1"
            (* the frame of a coroutine that has returned is gone *)
            /\ locals' = [locals EXCEPT ![i] = IF NextStep(graph, st) = "done" THEN NewLocals ELSE nl]
            /\ tpc' = [tpc EXCEPT ![i] = NextStep(graph, st)]
            /\ IF NextStep(graph, st) = "done"
               THEN /\ answers' = [answers EXCEPT ![i] =
                                      WorldviewAnswer(worldviews[i], nl.main_points, nl.how_details)]
                    /\ semaphore' = SemRelease(semaphore)
                    /\ finished' = Append(finished, i)
               ELSE UNCHANGED <<answers, semaphore, finished>>
    /\ UNCHANGED <<recorder, graph, worldviews, max_concurrency, gpc, results_map, outcome, unitRuns,
                   queued>>
    /\ UNCHANGED chatVars
    /\ UNCHANGED cascadeVars
    /\ UNCHANGED primVars
    /\ UNCHANGED apiVars
    /\ events' = IF tpc[i] \in EventSteps THEN events \cup {GraphEvent(tpc[i], i, <<>>, FALSE)} ELSE events
    /\ UNCHANGED <<missing_prompts, points>>

(* The await a branch is suspended in raises: the exception leaves the     *)
(* `async with` block and ends the task.                                   *)
StepRaises(i) ==
    /\ gpc = "gather"
    /\ \/ tpc[i] \in RaisingSteps
       \/ tpc[i] \in EventSteps /\ _record_event_raises(recorder)
    /\ tpc' = [tpc EXCEPT ![i] = "failed"]
    /\ answers' = [answers EXCEPT ![i] =
                      BranchException(IF tpc[i] \in EventSteps THEN SinkError ELSE StepError)]
    /\ semaphore' = SemRelease(semaphore)
    /\ finished' = Append(finished, i)
    /\ locals' = [locals EXCEPT ![i] = NewLocals]
    /\ UNCHANGED <<recorder, graph, worldviews, max_concurrency, gpc, results_map, outcome,
                   unitRuns, queued>>
    /\ UNCHANGED chatVars
    /\ UNCHANGED cascadeVars
    /\ UNCHANGED primVars
    /\ UNCHANGED apiVars
    /\ UNCHANGED worldVars

AllTasksDone == \A i \in Branches : tpc[i] \in {"done", "failed"}

(* translate graph: gather returns, the answers are merged, and the run    *)
(* raises if nothing was merged.                                           *)
GatherTranslate ==
    /\ gpc = "gather"
    /\ graph = TranslateGraph
    /\ AllTasksDone
    /\ results_map' = MergeAnswers(answers)
    /\ gpc' = "done"
    /\ IF results_map' = <<>>
       THEN outcome' = [status |-> "raised", worldviews |-> <<>>,
                        error |-> "translate_to_worldview produced no results"]
       ELSE outcome' = [status |-> "returned", worldviews |-> results_map', error |-> ""]
    /\ UNCHANGED <<recorder, graph, worldviews, max_concurrency, semaphore, tpc, locals, answers,
                   finished, unitRuns, queued>>
    /\ UNCHANGED chatVars
    /\ UNCHANGED cascadeVars
    /\ UNCHANGED primVars
    /\ UNCHANGED apiVars
    /\ UNCHANGED worldVars

(* concept graph: gather returns, the answers are merged, and the run      *)
(* awaits retrieval_telemetry.record_worldviews.                           *)
GatherConcept ==
    /\ gpc = "gather"
    /\ graph = ConceptGraph
    /\ AllTasksDone
    /\ results_map' = MergeAnswers(answers)
    /\ gpc' = "telemetry"
    /\ UNCHANGED <<recorder, graph, worldviews, max_concurrency, semaphore, tpc, locals, answers,
                   outcome, finished, unitRuns, queued>>
    /\ UNCHANGED chatVars
    /\ UNCHANGED cascadeVars
    /\ UNCHANGED primVars
    /\ UNCHANGED apiVars
    /\ UNCHANGED worldVars

(* concept graph: telemetry is over (it never raises), the result is built. *)
ReturnConcept ==
    /\ gpc = "telemetry"
    /\ gpc' = "done"
    /\ outcome' = [status |-> "returned", worldviews |-> results_map, error |-> ""]
    /\ UNCHANGED <<recorder, graph, worldviews, max_concurrency, semaphore, tpc, locals, answers,
                   results_map, finished, unitRuns, queued>>
    /\ UNCHANGED chatVars
    /\ UNCHANGED cascadeVars
    /\ UNCHANGED primVars
    /\ UNCHANGED apiVars
    /\ UNCHANGED worldVars

GraphNext ==
    \/ Validate
    \/ ConceptStage1
    \/ \E i \in Branches : StartTask(i)
    \/ \E i \in Branches : AcquireAfterWait(i)
    \/ \E i \in Branches : StepReturns(i)
    \/ \E i \in Branches : StepRaises(i)
    \/ GatherTranslate
    \/ GatherConcept
    \/ ReturnConcept

SpecGraph == GraphInit /\ [][GraphNext]_vars

(* The event loop runs every task that can run, and every awaited remote   *)
(* call returns or raises: a run takes a step whenever one is possible.    *)
SpecGraphFair == GraphInit /\ [][GraphNext]_vars /\ WF_vars(GraphNext)

(***************************************************************************)
(* Part III: retrieval primitives, embedding reranker and the adaptive     *)
(* retrieval cascade (_retrieve_with_widen).                               *)
(*                                                                         *)
(* A snippet is a record of its chunk id, the length of its text (0 for a  *)
(* text that is empty or blank) and the dot product of its embedding with  *)
(* the embedding of the query.  The document store holds two ranked lists  *)
(* and answers a search with the first `limit` entries.                    *)
(***************************************************************************)
MaxHits == 10
MaxIngestions == 1

HitCounts == {0, 2, 3, 6, MaxHits}

(* Text lengths of an index: every text 50 or 200 characters long, or the  *)
(* second one 199 and the others 200.                                      *)
TextShapes == {[chars |-> 50, short |-> FALSE], [chars |-> 200, short |-> FALSE],
               [chars |-> 200, short |-> TRUE]}

Doc(src, i, c, short) ==
    [chunk_id |-> <<src, i>>,
     chars |-> IF short /\ i = 2 /\ c > 0 THEN c - 1 ELSE c,
     sim |-> i % 2]

Indexes(src) ==
    {[i \in 1..n |-> Doc(src, i, t.chars, t.short)] : n \in HitCounts, t \in TextShapes}
        \cup {[i \in 1..2 |-> Doc(src, i, 0, FALSE)]}

(* Stores whose two indexes hold different chunks, and stores whose sparse *)
(* index ranks the chunks of the dense index.                              *)
(* A store client without search_sparse_points, and one whose sparse search *)
(* raises, have no sparse index to speak of.                               *)
Stores ==
    {[dense |-> d, sparse |-> s, search_sparse_points |-> "present"] :
        d \in Indexes("d"), s \in Indexes("s")}
        \cup {[dense |-> d, sparse |-> d, search_sparse_points |-> "present"] : d \in Indexes("d")}
        \cup {[dense |-> d, sparse |-> <<>>, search_sparse_points |-> c] :
                 d \in Indexes("d"), c \in {"absent", "raises"}}

(* RetrievalConfig(): the three stages of the defaults, and small stages *)
StageConfigs ==
    {[k_base |-> 10, widen_to |-> 18, k_final |-> 6],
     [k_base |-> 5, widen_to |-> 10, k_final |-> 4],
     [k_base |-> 2, widen_to |-> 3, k_final |-> 2],
     [k_base |-> 1, widen_to |-> 2, k_final |-> 0]}

HybridConfigs ==
    {[hybrid_k_dense |-> 12, hybrid_k_sparse |-> 30, hybrid_k_fused |-> 30],
     [hybrid_k_dense |-> 1, hybrid_k_sparse |-> 1, hybrid_k_fused |-> 2]}

min_chars_thin_Lower == 400 - 100

(* _should_widen(..., min_chars: int = 400) *)
min_chars_thin == 400
k_rrf == 60

RECURSIVE _snippets_total_chars(_)
_snippets_total_chars(snippets) ==
    IF snippets = <<>> THEN 0
    ELSE Head(snippets).chars + _snippets_total_chars(Tail(snippets))

(* seq[:k] *)
SliceTo(seq, k) ==
    IF k >= 0 THEN SubSeq(seq, 1, Min(k, Len(seq)))
    ELSE SubSeq(seq, 1, Max(0, Len(seq) + k))

(* sorted(..., reverse=True) by a score: a stable sort, descending, of      *)
(* records that carry their score as the fraction num / den.               *)
ScoreGreater(x, y) == x.num * y.den > y.num * x.den

RECURSIVE InsertScored(_, _)
InsertScored(sorted, x) ==
    IF sorted = <<>> THEN <<x>>
    ELSE IF ScoreGreater(x, Head(sorted)) THEN <<x>> \o sorted
    ELSE <<Head(sorted)>> \o InsertScored(Tail(sorted), x)

RECURSIVE SortScored(_)
SortScored(seq) ==
    IF seq = <<>> THEN <<>>
    ELSE InsertScored(SortScored(SubSeq(seq, 1, Len(seq) - 1)), seq[Len(seq)])

HasText(item) == item.chars > 0

(* qdrant_client.search_points / search_sparse_points with limit = k *)
SearchPoints(index, k) == SubSeq(index, 1, Min(Max(k, 0), Len(index)))

dense_retrieve(k) == SelectSeq(SearchPoints(qdrant_client.dense, k), HasText)

MsgSparseUnsupported == "Sparse retrieval not supported by qdrant client"
MsgSearchFailed == "search_sparse_points failed"

sparse_retrieve_error_NoCapabilityCheck ==
    IF qdrant_client.search_sparse_points = "raises" THEN MsgSearchFailed ELSE ""

(* sparse_retrieve: the error it raises, "" when it returns: the           *)
(* RuntimeError of the hasattr check, or the error of the search, logged   *)
(* and raised again.                                                       *)
sparse_retrieve_error ==
    CASE qdrant_client.search_sparse_points = "absent" -> MsgSparseUnsupported
      [] qdrant_client.search_sparse_points = "raises" -> MsgSearchFailed
      [] OTHER -> ""

(* sparse_retrieve: the hits it returns when it does not raise *)
sparse_retrieve(k) == SelectSeq(SearchPoints(qdrant_client.sparse, k), HasText)

(* _extract_chunk_id returns None: no chunk_id in the payload, or not a string *)
NoChunkId == <<>>

FuseKey_SharedSynthetic(item, rank) ==
    IF item.chunk_id # NoChunkId THEN item.chunk_id ELSE <<"idx", 0, 0>>

(* chunk_id = _extract_chunk_id(payload) or f"idx-{id(item)}-{rank}" *)
FuseKey(item, rank) ==
    IF item.chunk_id # NoChunkId THEN item.chunk_id ELSE <<"idx", item.oid, rank>>

(* Reciprocal-rank score of a key, as a fraction.  A list holds a key at    *)
(* most once: a point id is derived from the chunk id, and a synthetic key *)
(* carries the rank.                                                       *)
RankIn(list, id) ==
    IF \E r \in 1..Len(list) : FuseKey(list[r], r) = id
    THEN CHOOSE r \in 1..Len(list) : FuseKey(list[r], r) = id
    ELSE 0

RrfScore_DenseTwice(dense_hits, sparse_hits, id) ==
    LET a == RankIn(dense_hits, id)
        b == RankIn(sparse_hits, id)
    IN IF a > 0 /\ b > 0
       THEN [num |-> 2 * (k_rrf + b) + (k_rrf + a), den |-> (k_rrf + a) * (k_rrf + b)]
       ELSE IF a > 0 THEN [num |-> 2, den |-> k_rrf + a]
       ELSE [num |-> 1, den |-> k_rrf + b]

RrfScore(dense_hits, sparse_hits, id) ==
    LET a == RankIn(dense_hits, id)
        b == RankIn(sparse_hits, id)
    IN IF a > 0 /\ b > 0
       THEN [num |-> (k_rrf + a) + (k_rrf + b), den |-> (k_rrf + a) * (k_rrf + b)]
       ELSE IF a > 0 THEN [num |-> 1, den |-> k_rrf + a]
       ELSE [num |-> 1, den |-> k_rrf + b]

_rrf_fuse(dense_hits, sparse_hits, k_fused) ==
    LET dense_keyed == [r \in 1..Len(dense_hits) |->
                           [snippet |-> dense_hits[r], key |-> FuseKey(dense_hits[r], r)]]
        sparse_keyed == [r \in 1..Len(sparse_hits) |->
                            [snippet |-> sparse_hits[r], key |-> FuseKey(sparse_hits[r], r)]]
        NewInSparse(e) == RankIn(dense_hits, e.key) = 0
        seen == dense_keyed \o SelectSeq(sparse_keyed, NewInSparse)
        scored == [j \in 1..Len(seen) |->
                      LET sc == RrfScore(dense_hits, sparse_hits, seen[j].key)
                      IN [snippet |-> seen[j].snippet, num |-> sc.num, den |-> sc.den]]
        ordered == SliceTo(SortScored(scored), k_fused)
    IN [p \in 1..Len(ordered) |-> ordered[p].snippet]

HybridPath_IgnoreForce(k_sparse, force_sparse) ==
    IF ~settings.use_hybrid_retrieval \/ k_sparse <= 0 THEN "disabled"
    ELSE IF qdrant_client.search_sparse_points = "absent" THEN "no_capability"
    ELSE IF qdrant_client.search_sparse_points = "raises" THEN "sparse_failed"
    ELSE "fused"

(* hybrid_retrieve: the way it takes after the dense search: "disabled"    *)
(* (line 153), "no_capability" (line 175), "sparse_failed" (line 172) or   *)
(* "fused" (line 179).                                                     *)
HybridPath(k_sparse, force_sparse) ==
    IF (~settings.use_hybrid_retrieval /\ ~force_sparse) \/ k_sparse <= 0 THEN "disabled"
    ELSE IF qdrant_client.search_sparse_points = "absent" THEN "no_capability"
    ELSE IF qdrant_client.search_sparse_points = "raises" THEN "sparse_failed"
    ELSE "fused"

hybrid_retrieve(k_dense, k_sparse, k_fused, force_sparse) ==
    IF HybridPath(k_sparse, force_sparse) = "fused"
    THEN _rrf_fuse(dense_retrieve(k_dense), sparse_retrieve(k_sparse), k_fused)
    ELSE dense_retrieve(k_dense)

(* scored.sort(key=lambda t: t[0], reverse=True) *)
SortByScore(snippets) ==
    LET scored == [j \in 1..Len(snippets) |->
                      [snippet |-> snippets[j], num |-> snippets[j].sim, den |-> 1]]
        ordered == SortScored(scored)
    IN [p \in 1..Len(ordered) |-> ordered[p].snippet]

rerank_by_embedding_KeepAll(snippets, k) == SortByScore(snippets)

rerank_by_embedding(snippets, k) ==
    IF snippets = <<>> THEN <<>>
    ELSE SliceTo(SortByScore(snippets), k)

_should_widen_CharsOnly(snippets, k) == _snippets_total_chars(snippets) < min_chars_thin

_should_widen(snippets, k) ==
    IF Len(snippets) < k THEN TRUE
    ELSE _snippets_total_chars(snippets) < min_chars_thin

_is_better_candidate(candidate, current) ==
    IF Len(candidate) > Len(current) THEN TRUE
    ELSE _snippets_total_chars(candidate) > _snippets_total_chars(current)

base_mode_DenseUnlessSparse ==
    IF sparse_only THEN "sparse" ELSE "dense"

base_mode ==
    IF sparse_only THEN "sparse"
    ELSE IF hybrid /\ settings.use_hybrid_retrieval THEN "hybrid"
    ELSE "dense"

HybridCounts == <<cfg.hybrid_k_dense, cfg.hybrid_k_sparse, cfg.hybrid_k_fused>>

SparseOnlyFailure_Never(base_hits) == FALSE

(* if sparse_only and not chosen.hits *)
SparseOnlyFailure(base_hits) == sparse_only /\ base_hits = <<>>

(* The condition under which the hybrid path is run after the base path. *)
FallbackCondition(base_hits) ==
    /\ ~sparse_only
    /\ settings.hybrid_fallback_on_thin
    /\ base_mode # "hybrid"
    /\ settings.use_hybrid_retrieval
    /\ _should_widen(base_hits, k_final)

(* f"{base_mode_label}->hybrid" *)
ArrowHybrid(label) ==
    CASE label = "dense" -> "dense->hybrid"
      [] label = "sparse" -> "sparse->hybrid"
      [] OTHER -> "hybrid->hybrid"

RetrievalOutcome(h, w, m) ==
    [status |-> "returned", hits |-> h, widened_hits |-> w, mode |-> m, error |-> ""]

CascadeInit ==
    /\ sparse_only \in BOOLEAN
    /\ hybrid \in BOOLEAN
    /\ \E stage \in StageConfigs :
         /\ k_base = stage.k_base
         /\ widen_to = stage.widen_to
         /\ k_final = stage.k_final
    /\ cfg \in HybridConfigs
    /\ settings \in [use_hybrid_retrieval : BOOLEAN, hybrid_fallback_on_thin : BOOLEAN]
    /\ qdrant_client \in Stores
    /\ wpc = "start"
    /\ mode = "none"
    /\ pass = 0
    /\ hits = <<>>
    /\ reranked = <<>>
    /\ widened_hits = <<>>
    /\ base = NoPath
    /\ chosen = NoRetrieval
    /\ first_pass = <<>>
    /\ calls = <<>>
    /\ ingestions = 0
    (* no event is recorded, no prompt file is missing, the collection is empty *)
    /\ events = {}
    /\ missing_prompts = {}
    /\ points = {}
    (* no request is being served *)
    /\ request = [endpoint |-> "none"]
    /\ env = [backend |-> "up", store |-> "up"]
    /\ response = [status |-> 0, detail |-> ""]
    /\ reported = {}
    (* no retrieval helper has been called *)
    /\ op = NoCall
    /\ ret = NoReturn
    /\ effects = <<>>
    (* the wrapper part of the state is at rest *)
    /\ client = "DeepSeekClient"
    /\ retries = 0
    /\ min_chars = None
    /\ require_sentence_end = TRUE
    /\ now = 0
    /\ nonce = 0
    /\ result = Unset
    /\ completion = Unset
    /\ lastSent = <<>>
    /\ attempt = 0
    /\ delay = 0
    /\ exc = NoError
    /\ cpc = "idle"
    /\ returned = <<>>
    /\ raised = NoError
    /\ runs = 0
    /\ chatCalls = 0
    /\ sleeps = 0
    /\ firstNonces = <<>>
    (* the graph part of the state is at rest *)
    /\ graph = "none"
    /\ worldviews = <<>>
    /\ max_concurrency = 0
    /\ gpc = "idle"
    /\ semaphore = [value |-> 0, waiters |-> <<>>]
    /\ tpc = <<>>
    /\ locals = <<>>
    /\ answers = <<>>
    /\ results_map = <<>>
    /\ recorder = "GraphEventRecorder"
    /\ outcome = NoOutcome
    /\ finished = <<>>
    /\ unitRuns = <<>>
    /\ queued = {}

(* base_mode = ...; the first _run_path(base_mode) is entered. *)
StartCascade ==
    /\ wpc = "start"
    /\ mode' = base_mode
    /\ pass' = 1
    /\ wpc' = "retrieve"
    /\ UNCHANGED <<sparse_only, hybrid, k_base, widen_to, k_final, cfg, settings, qdrant_client,
                   hits, reranked, widened_hits, base, chosen, first_pass, calls, ingestions>>
    /\ UNCHANGED chatVars
    /\ UNCHANGED graphVars
    /\ UNCHANGED primVars
    /\ UNCHANGED apiVars
    /\ UNCHANGED worldVars

(* _run_path: the first retrieval of the path. *)
Retrieve ==
    /\ wpc = "retrieve"
    /\ calls' = Append(calls, [primitive |-> mode,
                               k |-> IF mode = "hybrid" THEN HybridCounts ELSE <<k_base>>,
                               pass |-> 1])
    /\ IF mode = "sparse" /\ sparse_retrieve_error # ""
       THEN (* the error of sparse_retrieve leaves _run_path and _retrieve_with_widen *)
            /\ chosen' = [NoRetrieval EXCEPT !.status = "raised", !.error = sparse_retrieve_error]
            /\ wpc' = "done"
            /\ UNCHANGED hits
       ELSE /\ hits' = CASE mode = "sparse" -> sparse_retrieve(k_base)
                         [] mode = "hybrid" -> hybrid_retrieve(cfg.hybrid_k_dense,
                                                               cfg.hybrid_k_sparse,
                                                               cfg.hybrid_k_fused, FALSE)
                         [] OTHER -> dense_retrieve(k_base)
            /\ wpc' = "rerank"
            /\ UNCHANGED chosen
    /\ UNCHANGED <<sparse_only, hybrid, k_base, widen_to, k_final, cfg, settings, qdrant_client,
                   mode, pass, reranked, widened_hits, base, first_pass, ingestions>>
    /\ UNCHANGED chatVars
    /\ UNCHANGED graphVars
    /\ UNCHANGED primVars
    /\ UNCHANGED apiVars
    /\ UNCHANGED worldVars

(* _run_path: rerank_by_embedding of what was retrieved; after the first   *)
(* retrieval the thinness test decides whether the path widens.            *)
Rerank ==
    /\ wpc = "rerank"
    /\ reranked' = rerank_by_embedding(hits, k_final)
    /\ IF pass = 1
       THEN /\ first_pass' = reranked'
            /\ widened_hits' = <<>>
            /\ wpc' = IF _should_widen(reranked', k_final) THEN "widen" ELSE "path_done"
       ELSE /\ wpc' = "path_done"
            /\ UNCHANGED <<first_pass, widened_hits>>
    /\ UNCHANGED <<sparse_only, hybrid, k_base, widen_to, k_final, cfg, settings, qdrant_client,
                   mode, pass, hits, base, chosen, calls, ingestions>>
    /\ UNCHANGED chatVars
    /\ UNCHANGED graphVars
    /\ UNCHANGED primVars
    /\ UNCHANGED apiVars
    /\ UNCHANGED worldVars

(* _run_path: the widened retrieval, sparse for the sparse mode and dense  *)
(* for every other mode.                                                   *)
Widen ==
    /\ wpc = "widen"
    /\ LET primitive == IF mode = "sparse" THEN "sparse" ELSE "dense"
           widened == IF mode = "sparse" THEN sparse_retrieve(widen_to)
                      ELSE dense_retrieve(widen_to)
       IN /\ hits' = widened
          /\ widened_hits' = widened
          /\ calls' = Append(calls, [primitive |-> primitive, k |-> <<widen_to>>, pass |-> 2])
    /\ pass' = 2
    /\ wpc' = "rerank"
    /\ UNCHANGED <<sparse_only, hybrid, k_base, widen_to, k_final, cfg, settings, qdrant_client,
                   mode, reranked, base, chosen, first_pass, ingestions>>
    /\ UNCHANGED chatVars
    /\ UNCHANGED graphVars
    /\ UNCHANGED primVars
    /\ UNCHANGED apiVars
    /\ UNCHANGED worldVars

(* The base path has returned: the sparse-only check, then the decision to *)
(* run the hybrid path as well.                                            *)
BasePathDone ==
    /\ wpc = "path_done"
    /\ base = NoPath
    /\ IF SparseOnlyFailure(reranked)
       THEN /\ chosen' = [NoRetrieval EXCEPT !.status = "raised",
                                             !.error = "Sparse retrieval returned no hits"]
            /\ base' = [hits |-> reranked, widened_hits |-> widened_hits, mode_label |-> mode,
                        first_pass |-> first_pass]
            /\ wpc' = "done"
            /\ UNCHANGED <<mode, pass>>
       ELSE IF FallbackCondition(reranked)
       THEN /\ base' = [hits |-> reranked, widened_hits |-> widened_hits, mode_label |-> mode,
                        first_pass |-> first_pass]
            /\ mode' = "hybrid"
            /\ pass' = 1
            /\ wpc' = "retrieve"
            /\ UNCHANGED chosen
       ELSE /\ chosen' = RetrievalOutcome(reranked, widened_hits, mode)
            /\ base' = [hits |-> reranked, widened_hits |-> widened_hits, mode_label |-> mode,
                        first_pass |-> first_pass]
            /\ wpc' = "done"
            /\ UNCHANGED <<mode, pass>>
    /\ UNCHANGED <<sparse_only, hybrid, k_base, widen_to, k_final, cfg, settings, qdrant_client,
                   hits, reranked, widened_hits, first_pass, calls, ingestions>>
    /\ UNCHANGED chatVars
    /\ UNCHANGED graphVars
    /\ UNCHANGED primVars
    /\ UNCHANGED apiVars
    /\ UNCHANGED worldVars

(* The hybrid path has returned: the better candidate is the outcome. *)
HybridPathDone ==
    /\ wpc = "path_done"
    /\ base # NoPath
    /\ chosen' = IF _is_better_candidate(reranked, base.hits)
                 THEN RetrievalOutcome(reranked, widened_hits, ArrowHybrid(base.mode_label))
                 ELSE RetrievalOutcome(base.hits, base.widened_hits, base.mode_label)
    /\ wpc' = "done"
    /\ UNCHANGED <<sparse_only, hybrid, k_base, widen_to, k_final, cfg, settings, qdrant_client,
                   mode, pass, hits, reranked, widened_hits, base, first_pass, calls, ingestions>>
    /\ UNCHANGED chatVars
    /\ UNCHANGED graphVars
    /\ UNCHANGED primVars
    /\ UNCHANGED apiVars
    /\ UNCHANGED worldVars

(* The collection is shared with the ingestion service: between the base   *)
(* path and the hybrid path of one call, a re-ingestion replaces the       *)
(* chunks the dense search finds.                                          *)
Reingest ==
    /\ wpc = "retrieve"
    /\ base # NoPath
    /\ ingestions < MaxIngestions
    /\ \E d \in Indexes("d") :
         /\ d # qdrant_client.dense
         /\ qdrant_client' = [qdrant_client EXCEPT !.dense = d]
    /\ ingestions' = ingestions + 1
    /\ UNCHANGED <<sparse_only, hybrid, k_base, widen_to, k_final, cfg, settings,
                   wpc, mode, pass, hits, reranked, widened_hits, base, chosen, first_pass, calls>>
    /\ UNCHANGED chatVars
    /\ UNCHANGED graphVars
    /\ UNCHANGED primVars
    /\ UNCHANGED apiVars
    /\ UNCHANGED worldVars

CascadeNext ==
    \/ Reingest
    \/ StartCascade
    \/ Retrieve
    \/ Rerank
    \/ Widen
    \/ BasePathDone
    \/ HybridPathDone

SpecCascade == CascadeInit /\ [][CascadeNext]_vars

(***************************************************************************)
(* Part IV: single calls of the retrieval helpers (payload_filter,         *)
(* sparse_retrieve, hybrid_retrieve, _rrf_fuse, rerank_by_embedding,       *)
(* build_context) and of the derivation of a RetrievalConfig from the      *)
(* settings.  A call is one action: it records its arguments in op, what   *)
(* it returned or raised in ret, and the calls it issued to the embedding  *)
(* service and the document store in effects.                              *)
(***************************************************************************)
MaxListLen == 3
MaxFinal == 7

(* RetrievedSnippet objects: the chunk id of the payload (NoChunkId when   *)
(* there is none), the identity of the object, the length of the stripped  *)
(* text, and the dot product with the query embedding.                     *)
Snippet(cid, oid, c, s) == [chunk_id |-> cid, oid |-> oid, chars |-> c, sim |-> s]

(* Hits of a dense search and hits of a sparse search: different objects,  *)
(* some for the same chunk, some without a chunk id.                       *)
DenseObjects ==
    {Snippet(<<"c", 1>>, 1, 50, 1), Snippet(<<"c", 2>>, 2, 200, 0),
     Snippet(NoChunkId, 3, 50, 1), Snippet(NoChunkId, 4, 200, 0)}

SparseObjects ==
    {Snippet(<<"c", 1>>, 5, 50, 0), Snippet(<<"c", 3>>, 6, 200, 1),
     Snippet(<<"c", 2>>, 7, 200, 1), Snippet(NoChunkId, 8, 50, 0)}

(* Snippets as build_context meets them: one of them with a blank text *)
ContextObjects ==
    {Snippet(<<"c", 1>>, 1, 50, 1), Snippet(<<"c", 2>>, 2, 200, 0),
     Snippet(NoChunkId, 3, 50, 1), Snippet(<<"c", 4>>, 9, 0, 0)}

(* Lists of at most n different objects of S *)
ListsOf(S, n) ==
    {l \in UNION {[1..m -> S] : m \in 0..n} : \A p, q \in DOMAIN l : p # q => l[p] # l[q]}

CharBudgets == {0, 49, 50, 100, 249, 250, 12000}

(* The stores of single calls: few chunks, every kind of sparse search *)
SmallStores == {s \in Stores : Len(s.dense) = 3 /\ Len(s.sparse) <= MaxListLen
                               /\ s.dense[2].chars = 50
                               /\ (s.sparse = <<>> \/ s.sparse[1].chars = 50)}

(* ---- payload_filter ---- *)
None_worldview == ""
Worldviews == {None_worldview, "Idealismus"}
BookTypes == {"", "primary", "secondary", "book"}

chunk_type_of_Verbatim(bt) == bt

(* the stored chunk_type of a logical book type *)
chunk_type_of(bt) ==
    CASE bt = "primary" -> "book"
      [] bt = "secondary" -> "secondary_book"
      [] OTHER -> bt

NonEmpty(bt) == bt # ""

chunk_types(book_types) ==
    LET kept == SelectSeq(book_types, NonEmpty)
    IN [j \in 1..Len(kept) |-> chunk_type_of(kept[j])]

(* {} *)
EmptyFilter == <<>>

payload_filter(worldview, book_types) ==
    LET wv == IF worldview # "" THEN <<[key |-> "worldviews", match |-> [value |-> worldview]]>>
              ELSE <<>>
        ct == chunk_types(book_types)
        ty == IF ct = <<>> THEN <<>>
              ELSE IF Len(ct) = 1 THEN <<[key |-> "chunk_type", match |-> [value |-> ct[1]]]>>
              ELSE <<[key |-> "chunk_type", match |-> [any |-> ct]]>>
        must == wv \o ty
    IN IF must # <<>> THEN [must |-> must] ELSE EmptyFilter

(* ---- rerank_by_embedding: its calls to the embedding service ---- *)
EmbedTexts(n) == [call |-> "embed_texts", texts |-> n]

rerank_embed_calls_Always(snippets) == <<EmbedTexts(1), EmbedTexts(Len(snippets))>>

(* embed_text(query) and embed_texts(texts), unless there is no snippet *)
rerank_embed_calls(snippets) ==
    IF snippets = <<>> THEN <<>>
    ELSE <<EmbedTexts(1), EmbedTexts(Len(snippets))>>

(* ---- build_context ---- *)
RECURSIVE build_context_from(_, _, _, _, _, _)
build_context_from(snippets, j, max_chars, parts, refs, total) ==
    IF j > Len(snippets) THEN [parts |-> parts, refs |-> refs]
    ELSE LET snip == snippets[j]
             refs2 == IF snip.chunk_id # NoChunkId THEN Append(refs, snip.chunk_id) ELSE refs
         IN IF snip.chars = 0
            THEN build_context_from(snippets, j + 1, max_chars, parts, refs, total)
            ELSE IF total + snip.chars > max_chars
            THEN [parts |-> parts, refs |-> refs2]
            ELSE build_context_from(snippets, j + 1, max_chars, Append(parts, snip), refs2,
                                    total + snip.chars)

(* The snippets whose text is joined, and the chunk ids collected *)
build_context(snippets, max_chars) == build_context_from(snippets, 1, max_chars, <<>>, <<>>, 0)

(* ---- RetrievalConfig derived from the settings ---- *)
Defaults ==
    [k_base_concept |-> 10, k_base_context1 |-> 5, k_base_context2 |-> 10,
     k_final_concept |-> 6, k_final_context1 |-> 4, k_final_context2 |-> 6,
     widen_concept |-> 18, widen_context1 |-> 10, widen_context2 |-> 18,
     hybrid_k_dense |-> 12, hybrid_k_sparse |-> 30, hybrid_k_fused |-> 30]

DeriveConfig_NoMax(g, fin) ==
    [Defaults EXCEPT !.k_final_concept = IF g = ConceptGraph THEN fin.concept ELSE @,
                     !.k_final_context1 = fin.context1,
                     !.k_final_context2 = fin.context2]

(* `if cfg is None:` of the two graphs; fin holds settings.cewv_k_final_* *)
DeriveConfig(g, fin) ==
    IF g = ConceptGraph
    THEN [k_base_concept |-> Max(Defaults.k_base_concept, fin.concept),
          k_base_context1 |-> Max(Defaults.k_base_context1, fin.context1),
          k_base_context2 |-> Max(Defaults.k_base_context2, fin.context2),
          k_final_concept |-> fin.concept,
          k_final_context1 |-> fin.context1,
          k_final_context2 |-> fin.context2,
          widen_concept |-> Max(Defaults.widen_concept, fin.concept * 3),
          widen_context1 |-> Max(Defaults.widen_context1, fin.context1 * 3),
          widen_context2 |-> Max(Defaults.widen_context2, fin.context2 * 3),
          hybrid_k_dense |-> Defaults.hybrid_k_dense,
          hybrid_k_sparse |-> Defaults.hybrid_k_sparse,
          hybrid_k_fused |-> Defaults.hybrid_k_fused]
    ELSE [k_base_concept |-> Defaults.k_base_concept,
          k_base_context1 |-> Max(Defaults.k_base_context1, fin.context1),
          k_base_context2 |-> Max(Defaults.k_base_context2, fin.context2),
          k_final_concept |-> Defaults.k_final_concept,
          k_final_context1 |-> fin.context1,
          k_final_context2 |-> fin.context2,
          widen_concept |-> Defaults.widen_concept,
          widen_context1 |-> Max(Defaults.widen_context1, fin.context1 * 3),
          widen_context2 |-> Max(Defaults.widen_context2, fin.context2 * 3),
          hybrid_k_dense |-> Defaults.hybrid_k_dense,
          hybrid_k_sparse |-> Defaults.hybrid_k_sparse,
          hybrid_k_fused |-> Defaults.hybrid_k_fused]

(* settings.cewv_k_final_concept / _context1 / _context2 *)
FinalCounts == {1, 4, 6, MaxFinal, 11, 19}

Returned(v) == [status |-> "returned", value |-> v]
Raised(err) == [status |-> "raised", error |-> err, value |-> <<>>]

SearchDense(k) == [call |-> "search_points", limit |-> k]
SearchSparse(k) == [call |-> "search_sparse_points", limit |-> k]

HelpersInit ==
    /\ op = NoCall
    /\ ret = NoReturn
    /\ effects = <<>>
    /\ settings \in [use_hybrid_retrieval : BOOLEAN, hybrid_fallback_on_thin : {TRUE}]
    /\ qdrant_client \in SmallStores
    (* the rest of the retrieval part of the state is at rest *)
    /\ sparse_only = FALSE
    /\ hybrid = FALSE
    /\ k_base = 0
    /\ widen_to = 0
    /\ k_final = 0
    /\ cfg = [hybrid_k_dense |-> 0, hybrid_k_sparse |-> 0, hybrid_k_fused |-> 0]
    /\ wpc = "idle"
    /\ mode = "none"
    /\ pass = 0
    /\ hits = <<>>
    /\ reranked = <<>>
    /\ widened_hits = <<>>
    /\ base = NoPath
    /\ chosen = NoRetrieval
    /\ first_pass = <<>>
    /\ calls = <<>>
    /\ ingestions = 0
    (* no event is recorded, no prompt file is missing, the collection is empty *)
    /\ events = {}
    /\ missing_prompts = {}
    /\ points = {}
    (* no request is being served *)
    /\ request = [endpoint |-> "none"]
    /\ env = [backend |-> "up", store |-> "up"]
    /\ response = [status |-> 0, detail |-> ""]
    /\ reported = {}
    (* the wrapper part of the state is at rest *)
    /\ client = "DeepSeekClient"
    /\ retries = 0
    /\ min_chars = None
    /\ require_sentence_end = TRUE
    /\ now = 0
    /\ nonce = 0
    /\ result = Unset
    /\ completion = Unset
    /\ lastSent = <<>>
    /\ attempt = 0
    /\ delay = 0
    /\ exc = NoError
    /\ cpc = "idle"
    /\ returned = <<>>
    /\ raised = NoError
    /\ runs = 0
    /\ chatCalls = 0
    /\ sleeps = 0
    /\ firstNonces = <<>>
    (* the graph part of the state is at rest *)
    /\ graph = "none"
    /\ worldviews = <<>>
    /\ max_concurrency = 0
    /\ gpc = "idle"
    /\ semaphore = [value |-> 0, waiters |-> <<>>]
    /\ tpc = <<>>
    /\ locals = <<>>
    /\ answers = <<>>
    /\ results_map = <<>>
    /\ recorder = "GraphEventRecorder"
    /\ outcome = NoOutcome
    /\ finished = <<>>
    /\ unitRuns = <<>>
    /\ queued = {}

CallPayloadFilter ==
    /\ op = NoCall
    /\ \E wv \in Worldviews, bts \in UNION {[1..m -> BookTypes] : m \in 0..MaxListLen} :
         /\ op' = [name |-> "payload_filter", worldview |-> wv, book_types |-> bts]
         /\ ret' = Returned(payload_filter(wv, bts))
    /\ effects' = <<>>
    /\ UNCHANGED chatVars
    /\ UNCHANGED graphVars
    /\ UNCHANGED cascadeVars
    /\ UNCHANGED apiVars
    /\ UNCHANGED worldVars

CallSparseRetrieve ==
    /\ op = NoCall
    /\ \E k \in {1, MaxListLen} :
         /\ op' = [name |-> "sparse_retrieve", k |-> k]
         /\ IF qdrant_client.search_sparse_points = "absent"
            THEN /\ ret' = Raised(sparse_retrieve_error)
                 /\ effects' = <<>>
            ELSE IF sparse_retrieve_error # ""
            THEN /\ ret' = Raised(sparse_retrieve_error)
                 /\ effects' = <<SearchSparse(k)>>
            ELSE /\ ret' = Returned(sparse_retrieve(k))
                 /\ effects' = <<SearchSparse(k)>>
    /\ UNCHANGED chatVars
    /\ UNCHANGED graphVars
    /\ UNCHANGED cascadeVars
    /\ UNCHANGED apiVars
    /\ UNCHANGED worldVars

CallHybridRetrieve ==
    /\ op = NoCall
    /\ \E k_dense \in {1, MaxListLen}, k_sparse \in {0, MaxListLen}, k_fused \in {1, 30},
          force_sparse \in BOOLEAN :
         /\ op' = [name |-> "hybrid_retrieve", k_dense |-> k_dense, k_sparse |-> k_sparse,
                   k_fused |-> k_fused, force_sparse |-> force_sparse,
                   path |-> HybridPath(k_sparse, force_sparse)]
         /\ ret' = Returned(hybrid_retrieve(k_dense, k_sparse, k_fused, force_sparse))
         /\ effects' = IF HybridPath(k_sparse, force_sparse) \in {"fused", "sparse_failed"}
                       THEN <<EmbedTexts(1), SearchDense(k_dense), SearchSparse(k_sparse)>>
                       ELSE <<EmbedTexts(1), SearchDense(k_dense)>>
    /\ UNCHANGED chatVars
    /\ UNCHANGED graphVars
    /\ UNCHANGED cascadeVars
    /\ UNCHANGED apiVars
    /\ UNCHANGED worldVars

CallRrfFuse ==
    /\ op = NoCall
    /\ \E dense_hits \in ListsOf(DenseObjects, MaxListLen), k_fused \in {0, 2, 30} :
         \E sparse_hits \in ListsOf(SparseObjects, MaxListLen) \cup {dense_hits} :
           /\ op' = [name |-> "_rrf_fuse", dense_hits |-> dense_hits, sparse_hits |-> sparse_hits,
                     k_fused |-> k_fused]
           /\ ret' = Returned(_rrf_fuse(dense_hits, sparse_hits, k_fused))
    /\ effects' = <<>>
    /\ UNCHANGED chatVars
    /\ UNCHANGED graphVars
    /\ UNCHANGED cascadeVars
    /\ UNCHANGED apiVars
    /\ UNCHANGED worldVars

CallRerank ==
    /\ op = NoCall
    /\ \E snippets \in ListsOf(DenseObjects, MaxListLen), k \in {0, 1, 2, 6} :
         /\ op' = [name |-> "rerank_by_embedding", snippets |-> snippets, k_final |-> k]
         /\ ret' = Returned(rerank_by_embedding(snippets, k))
         /\ effects' = rerank_embed_calls(snippets)
    /\ UNCHANGED chatVars
    /\ UNCHANGED graphVars
    /\ UNCHANGED cascadeVars
    /\ UNCHANGED apiVars
    /\ UNCHANGED worldVars

CallBuildContext ==
    /\ op = NoCall
    /\ \E snippets \in ListsOf(ContextObjects, MaxListLen), max_chars \in CharBudgets :
         /\ op' = [name |-> "build_context", snippets |-> snippets, max_chars |-> max_chars]
         /\ ret' = Returned(build_context(snippets, max_chars))
    /\ effects' = <<>>
    /\ UNCHANGED chatVars
    /\ UNCHANGED graphVars
    /\ UNCHANGED cascadeVars
    /\ UNCHANGED apiVars
    /\ UNCHANGED worldVars

(* The head of a graph that was given no cfg *)
CallDeriveConfig ==
    /\ op = NoCall
    /\ \E g \in {ConceptGraph, TranslateGraph},
          fin \in [concept : FinalCounts, context1 : FinalCounts, context2 : FinalCounts] :
         /\ op' = [name |-> "derive_config", graph |-> g, cewv_k_final |-> fin]
         /\ ret' = Returned(DeriveConfig(g, fin))
    /\ effects' = <<>>
    /\ UNCHANGED chatVars
    /\ UNCHANGED graphVars
    /\ UNCHANGED cascadeVars
    /\ UNCHANGED apiVars
    /\ UNCHANGED worldVars

(* ---- the sufficiency label and the errors of a branch answer ---- *)
(* Context2 hits of a branch: texts of several lengths, one of them blank *)
Context2Objects ==
    {Snippet(<<"c", 1>>, 1, 150, 1), Snippet(<<"c", 2>>, 2, 250, 0),
     Snippet(<<"c", 3>>, 3, 700, 1), Snippet(<<"c", 4>>, 4, 2100, 0),
     Snippet(<<"c", 5>>, 5, 0, 0)}

(* len("\n\n".join(parts)) *)
JoinedLen(parts) ==
    IF parts = <<>> THEN 0 ELSE _snippets_total_chars(parts) + 2 * (Len(parts) - 1)

_assess_sufficiency(ctx_hits, ctx_text_len) ==
    IF ctx_hits = <<>> \/ ctx_text_len < 200 THEN "insufficient"
    ELSE IF Len(ctx_hits) < 3 \/ ctx_text_len < 600 THEN "low"
    ELSE IF ctx_text_len > 2000 THEN "high"
    ELSE "medium"

(* ctx2_text, ctx2_refs = build_context(ctx2_outcome.hits);                *)
(* sufficiency = _assess_sufficiency(ctx2_outcome.hits, ctx2_text);        *)
(* if _should_widen(ctx2_outcome.hits, cfg.k_final_context2): "low"        *)
BranchSufficiency(ctx2_hits, k_final_context2) ==
    IF _should_widen(ctx2_hits, k_final_context2) THEN "low"
    ELSE _assess_sufficiency(ctx2_hits, JoinedLen(build_context(ctx2_hits, 12000).parts))

(* errors, as the branch collects them after the context2 retrieval *)
BranchErrors(ctx1_hits, ctx2_hits) ==
    (IF ctx2_hits = <<>> THEN <<"no_context2_hits">> ELSE <<>>)
    \o (IF ctx1_hits = <<>> THEN <<"no_context1_hits">> ELSE <<>>)

(* The part of a branch between the context2 retrieval and the answer:     *)
(* sufficiency and errors of the WorldviewAnswer (errors or None).         *)
CallBranchAnswer ==
    /\ op = NoCall
    /\ \E ctx2_hits \in ListsOf(Context2Objects, MaxListLen),
          ctx1_hits \in ListsOf(ContextObjects, 1),
          k \in FinalCounts :
         /\ op' = [name |-> "branch_answer", ctx1_hits |-> ctx1_hits, ctx2_hits |-> ctx2_hits,
                   k_final_context2 |-> k]
         /\ ret' = Returned([sufficiency |-> BranchSufficiency(ctx2_hits, k),
                             errors |-> BranchErrors(ctx1_hits, ctx2_hits)])
    /\ effects' = <<>>
    /\ UNCHANGED chatVars
    /\ UNCHANGED graphVars
    /\ UNCHANGED cascadeVars
    /\ UNCHANGED apiVars
    /\ UNCHANGED worldVars

HelpersNext ==
    \/ CallPayloadFilter
    \/ CallSparseRetrieve
    \/ CallHybridRetrieve
    \/ CallRrfFuse
    \/ CallRerank
    \/ CallBuildContext
    \/ CallDeriveConfig
    \/ CallBranchAnswer

SpecHelpers == HelpersInit /\ [][HelpersNext]_vars

(***************************************************************************)
(* Step 1 of run_concept_explain_worldviews_graph: the concept retrieval   *)
(* (_retrieve_with_widen with sparse_only = True), the concept_retrieval   *)
(* event, the concept reasoning call and the creation of the branch tasks. *)
(***************************************************************************)
MsgNoSparseHits == "Sparse retrieval returned no hits"
MsgAbortingGraph == "Sparse concept retrieval returned no hits; aborting graph"

(* The stores of the concept collection: the sparse index ranks the chunks *)
(* of the dense index, or the client has no working sparse search.         *)
ConceptStores ==
    {s \in Stores : s.sparse = s.dense \/ s.search_sparse_points # "present"}

ConceptRetrievalError_EmptyContext(out, rec) ==
    IF out.status = "raised" /\ out.error # MsgNoSparseHits THEN out.error
    ELSE IF _record_event_raises(rec) THEN SinkError
    ELSE ""

(* What step 1 raises between the return of _retrieve_with_widen and the   *)
(* chat call, "" when it reaches the chat call: the error of the cascade,  *)
(* the error of the concept_retrieval event, or the error of               *)
(* `if not concept_outcome.hits`.                                          *)
ConceptRetrievalError(out, rec) ==
    IF out.status = "raised" THEN out.error
    ELSE IF _record_event_raises(rec) THEN SinkError
    ELSE IF out.hits = <<>> THEN MsgAbortingGraph
    ELSE ""

(* The concept_retrieval event of step 1: _record_event is reached only    *)
(* when _retrieve_with_widen has returned, and it records unless the sink  *)
(* raises; errors = ["no_sparse_hits"] and empty_hits for an outcome       *)
(* without hits.                                                           *)
ConceptRetrievalEvents(out, rec) ==
    IF out.status = "raised" \/ _record_event_raises(rec) THEN {}
    ELSE {GraphEvent("concept_retrieval", 0,
                     IF out.hits = <<>> THEN <<"no_sparse_hits">> ELSE <<>>, out.hits = <<>>)}

ConceptInit ==
    /\ graph = ConceptGraph
    /\ worldviews \in WorldviewLists(MaxBranches)
    /\ max_concurrency \in 1..MaxWidth
    /\ recorder \in Recorders
    /\ gpc = "entry"
    /\ semaphore = [value |-> 0, waiters |-> <<>>]
    /\ tpc = <<>>
    /\ locals = <<>>
    /\ answers = <<>>
    /\ results_map = <<>>
    /\ outcome = NoOutcome
    /\ finished = <<>>
    /\ unitRuns = <<>>
    /\ queued = {}
    (* the arguments of the concept retrieval *)
    /\ sparse_only = TRUE
    /\ hybrid \in BOOLEAN
    /\ \E f \in FinalCounts :
         LET c == DeriveConfig(ConceptGraph, [concept |-> f, context1 |-> 4, context2 |-> 6])
         IN /\ k_base = c.k_base_concept
            /\ widen_to = c.widen_concept
            /\ k_final = c.k_final_concept
            /\ cfg = [hybrid_k_dense |-> c.hybrid_k_dense, hybrid_k_sparse |-> c.hybrid_k_sparse,
                      hybrid_k_fused |-> c.hybrid_k_fused]
    /\ settings \in [use_hybrid_retrieval : BOOLEAN, hybrid_fallback_on_thin : {TRUE}]
    /\ qdrant_client \in ConceptStores
    /\ wpc = "start"
    /\ mode = "none"
    /\ pass = 0
    /\ hits = <<>>
    /\ reranked = <<>>
    /\ widened_hits = <<>>
    /\ base = NoPath
    /\ chosen = NoRetrieval
    /\ first_pass = <<>>
    /\ calls = <<>>
    /\ ingestions = 0
    (* no event is recorded, no prompt file is missing, the collection is empty *)
    /\ events = {}
    /\ missing_prompts = {}
    /\ points = {}
    (* no request is being served *)
    /\ request = [endpoint |-> "none"]
    /\ env = [backend |-> "up", store |-> "up"]
    /\ response = [status |-> 0, detail |-> ""]
    /\ reported = {}
    (* no retrieval helper has been called *)
    /\ op = NoCall
    /\ ret = NoReturn
    /\ effects = <<>>
    (* the wrapper part of the state is at rest *)
    /\ client = "DeepSeekClient"
    /\ retries = 0
    /\ min_chars = None
    /\ require_sentence_end = TRUE
    /\ now = 0
    /\ nonce = 0
    /\ result = Unset
    /\ completion = Unset
    /\ lastSent = <<>>
    /\ attempt = 0
    /\ delay = 0
    /\ exc = NoError
    /\ cpc = "idle"
    /\ returned = <<>>
    /\ raised = NoError
    /\ runs = 0
    /\ chatCalls = 0
    /\ sleeps = 0
    /\ firstNonces = <<>>

(* _retrieve_with_widen has come back: build_context, the                  *)
(* concept_retrieval event and the check of the hits.                      *)
ConceptRetrieval ==
    /\ gpc = "stage1"
    /\ wpc = "done"
    /\ IF ConceptRetrievalError(chosen, recorder) # ""
       THEN Raise(ConceptRetrievalError(chosen, recorder))
       ELSE /\ gpc' = "reasoning"
            /\ UNCHANGED outcome
    /\ UNCHANGED <<graph, worldviews, max_concurrency, semaphore, tpc, locals, answers,
                   results_map, recorder, finished, unitRuns, queued>>
    /\ UNCHANGED chatVars
    /\ UNCHANGED cascadeVars
    /\ UNCHANGED primVars
    /\ UNCHANGED apiVars
    /\ events' = events \cup ConceptRetrievalEvents(chosen, recorder)
    /\ UNCHANGED <<missing_prompts, points>>

(* _chat_with_retry(operation = "concept_reasoning") returns or raises     *)
(* after at least one chat call; then the concept_reasoning event, the     *)
(* semaphore and the tasks of the branches.                                *)
ConceptReasoning ==
    /\ gpc = "reasoning"
    /\ chatCalls' = chatCalls + 1
    /\ \E err \in {"", StepError} :
         IF err # ""
         THEN /\ Raise(err)
              /\ UNCHANGED <<semaphore, tpc, locals, answers, unitRuns>>
         ELSE IF _record_event_raises(recorder)
         THEN /\ Raise(SinkError)
              /\ UNCHANGED <<semaphore, tpc, locals, answers, unitRuns>>
         ELSE CreateTasks
    /\ UNCHANGED <<graph, worldviews, max_concurrency, results_map, recorder, finished, queued>>
    /\ UNCHANGED <<client, retries, min_chars, require_sentence_end, now, nonce, result,
                   completion, lastSent, attempt, delay, exc, cpc, returned, raised, runs,
                   sleeps, firstNonces>>
    /\ UNCHANGED cascadeVars
    /\ UNCHANGED primVars
    /\ UNCHANGED apiVars
    /\ events' = IF outcome'.status = "raised" THEN events
                 ELSE events \cup {GraphEvent("concept_reasoning", 0, <<>>, FALSE)}
    /\ UNCHANGED <<missing_prompts, points>>

ConceptNext ==
    \/ Validate
    \/ gpc = "stage1" /\ StartCascade
    \/ gpc = "stage1" /\ Retrieve
    \/ gpc = "stage1" /\ Rerank
    \/ gpc = "stage1" /\ Widen
    \/ gpc = "stage1" /\ BasePathDone
    \/ ConceptRetrieval
    \/ ConceptReasoning

SpecConcept == ConceptInit /\ [][ConceptNext]_vars

(***************************************************************************)
(* The HTTP layer: POST /graphs/concept-explain-worldviews and             *)
(* POST /graphs/translate-to-worldview.  A handler validates the request,  *)
(* awaits its service, which runs the graph, and turns what the graph      *)
(* raised into an HTTP error.                                              *)
(***************************************************************************)
NoRequest == [endpoint |-> "none"]
NoResponse == [status |-> 0, detail |-> ""]

(* app.shared.constants.ALLOWED_WORLDVIEWS: the worldview keys of the      *)
(* model, and one key that is not among them.                              *)
ALLOWED_WORLDVIEWS == 1..MaxBranches
UnknownWorldview == 0

RequestTexts == {<<>>, <<" ">>, <<"a">>}

Requests ==
    [endpoint : {ConceptGraph, TranslateGraph},
     text : RequestTexts,
     worldviews : WorldviewLists(MaxBranches) \cup {<<UnknownWorldview>>}]

(* The generation backend and the document store answer, or fail every call. *)
Environments == [backend : {"up", "down"}, store : {"up", "down"}]

HTTPException(status_code, detail) == [status |-> status_code, detail |-> detail]

(* The request models: Field(..., min_length=1), Field(..., min_items=1);  *)
(* the framework answers 422 for a body that does not validate.            *)
RequestModelValid(req) == Len(req.text) >= 1 /\ Len(req.worldviews) >= 1

(* The checks of a handler before its service call: the detail of the 400  *)
(* it raises, "" when the request passes.                                  *)
_validate_request(req) ==
    IF Strip(req.text) = <<>>
    THEN (IF req.endpoint = ConceptGraph THEN "concept is required" ELSE "text is required")
    ELSE IF req.worldviews = <<>> THEN "worldviews must not be empty"
    ELSE IF \E i \in 1..Len(req.worldviews) : req.worldviews[i] \notin ALLOWED_WORLDVIEWS
    THEN "Unknown worldview"
    ELSE ""

(* The errors the graphs raise as ValueError. *)
ValueErrors ==
    {"worldviews must not be empty", "text is required", "concept is required",
     "translate_to_worldview produced no results", MsgNoSparseHits, MsgAbortingGraph}

(* translate_to_worldview: `except ValueError` is 400 with the message of  *)
(* the error, `except Exception` is 502.                                   *)
TranslateResponse(out) ==
    IF out.status = "returned" THEN HTTPException(200, "")
    ELSE IF out.error \in ValueErrors THEN HTTPException(400, out.error)
    ELSE HTTPException(502, "translate to worldview failed")

(* concept_explain_worldviews: service.explain(concept=, worldviews=,      *)
(* verbose=) is a call of `explain(self, *, concept, worldviews)`; the     *)
(* TypeError of the call is caught by `except Exception` and is 502.       *)
ConceptResponse == HTTPException(502, "concept explain worldviews failed")

(* What a handler answers without awaiting a graph, NoResponse when it     *)
(* goes on to run the graph.                                               *)
EarlyResponse(req) ==
    IF ~RequestModelValid(req) THEN HTTPException(422, "request validation failed")
    ELSE IF _validate_request(req) # "" THEN HTTPException(400, _validate_request(req))
    ELSE IF req.endpoint = ConceptGraph THEN ConceptResponse
    ELSE NoResponse

InvalidInput(req) == ~RequestModelValid(req) \/ _validate_request(req) # ""

ApiInit ==
    /\ request = NoRequest
    /\ env = [backend |-> "up", store |-> "up"]
    /\ response = NoResponse
    /\ reported = {}
    (* the graph part of the state is at rest *)
    /\ graph = "none"
    /\ worldviews = <<>>
    /\ max_concurrency = 0
    /\ gpc = "idle"
    /\ semaphore = [value |-> 0, waiters |-> <<>>]
    /\ tpc = <<>>
    /\ locals = <<>>
    /\ answers = <<>>
    /\ results_map = <<>>
    /\ recorder = "GraphEventRecorder"
    /\ outcome = NoOutcome
    /\ finished = <<>>
    /\ unitRuns = <<>>
    /\ queued = {}
    (* the retrieval part of the state is at rest *)
    /\ sparse_only = FALSE
    /\ hybrid = FALSE
    /\ k_base = 0
    /\ widen_to = 0
    /\ k_final = 0
    /\ cfg = [hybrid_k_dense |-> 0, hybrid_k_sparse |-> 0, hybrid_k_fused |-> 0]
    /\ settings = [use_hybrid_retrieval |-> FALSE, hybrid_fallback_on_thin |-> FALSE]
    /\ qdrant_client = [dense |-> <<>>, sparse |-> <<>>]
    /\ wpc = "idle"
    /\ mode = "none"
    /\ pass = 0
    /\ hits = <<>>
    /\ reranked = <<>>
    /\ widened_hits = <<>>
    /\ base = NoPath
    /\ chosen = NoRetrieval
    /\ first_pass = <<>>
    /\ calls = <<>>
    /\ ingestions = 0
    (* no event is recorded, no prompt file is missing, the collection is empty *)
    /\ events = {}
    /\ missing_prompts = {}
    /\ points = {}
    (* no retrieval helper has been called *)
    /\ op = NoCall
    /\ ret = NoReturn
    /\ effects = <<>>
    (* the wrapper part of the state is at rest *)
    /\ client = "DeepSeekClient"
    /\ retries = 0
    /\ min_chars = None
    /\ require_sentence_end = TRUE
    /\ now = 0
    /\ nonce = 0
    /\ result = Unset
    /\ completion = Unset
    /\ lastSent = <<>>
    /\ attempt = 0
    /\ delay = 0
    /\ exc = NoError
    /\ cpc = "idle"
    /\ returned = <<>>
    /\ raised = NoError
    /\ runs = 0
    /\ chatCalls = 0
    /\ sleeps = 0
    /\ firstNonces = <<>>

(* A request arrives.  The handler answers it at once (422, 400, or the    *)
(* 502 of the concept endpoint), or awaits service.translate, which enters *)
(* the translate graph with max_concurrency = 4 and the default recorder.  *)
Receive ==
    /\ request = NoRequest
    /\ gpc = "idle"
    /\ \E req \in Requests, e \in Environments :
         IF EarlyResponse(req) # NoResponse
         THEN /\ response' = EarlyResponse(req)
              /\ reported' = reported \cup
                    (IF InvalidInput(req)
                     THEN {[kind |-> "invalid input", status |-> EarlyResponse(req).status]}
                     ELSE {})
              /\ env' = e
              /\ UNCHANGED <<request, graph, worldviews, max_concurrency, gpc>>
         ELSE /\ request' = req
              /\ env' = e
              /\ response' = NoResponse
              /\ graph' = TranslateGraph
              /\ worldviews' = req.worldviews
              /\ max_concurrency' = 4
              /\ gpc' = "entry"
              /\ UNCHANGED reported
    /\ UNCHANGED <<semaphore, tpc, locals, answers, results_map, recorder, outcome, finished,
                   unitRuns, queued>>
    /\ UNCHANGED chatVars
    /\ UNCHANGED cascadeVars
    /\ UNCHANGED primVars
    /\ UNCHANGED worldVars

(* A retrieval step returns only from a store that answers, a chat step    *)
(* only from a backend that answers; they raise only when it does not.     *)
StepCanReturn(i) ==
    /\ gpc = "gather"
    /\ tpc[i] \in {"ctx1", "ctx2"} => env.store = "up"
    /\ tpc[i] \in {"what", "how"} => env.backend = "up"

StepCanRaise(i) ==
    /\ gpc = "gather"
    /\ tpc[i] \in {"ctx1", "ctx2"} => env.store = "down"
    /\ tpc[i] \in {"what", "how"} => env.backend = "down"

(* service.translate has returned or raised: the handler answers, and the  *)
(* frame of the graph run is gone.                                         *)
Respond ==
    /\ request # NoRequest
    /\ gpc = "done"
    /\ response' = TranslateResponse(outcome)
    /\ reported' = reported \cup
          (IF outcome.status = "raised" /\ env.backend = "down" /\ env.store = "up"
           THEN {[kind |-> "generation backend unavailable",
                  status |-> TranslateResponse(outcome).status]}
           ELSE {})
    /\ request' = NoRequest
    /\ graph' = "none"
    /\ worldviews' = <<>>
    /\ max_concurrency' = 0
    /\ gpc' = "idle"
    /\ semaphore' = [value |-> 0, waiters |-> <<>>]
    /\ tpc' = <<>>
    /\ locals' = <<>>
    /\ answers' = <<>>
    /\ results_map' = <<>>
    /\ outcome' = NoOutcome
    /\ finished' = <<>>
    /\ unitRuns' = <<>>
    /\ queued' = {}
    /\ UNCHANGED <<recorder, env>>
    /\ UNCHANGED chatVars
    /\ UNCHANGED cascadeVars
    /\ UNCHANGED primVars
    /\ UNCHANGED worldVars

ApiNext ==
    \/ Receive
    \/ Validate
    \/ \E i \in Branches : StartTask(i)
    \/ \E i \in Branches : StepCanReturn(i) /\ StepReturns(i)
    \/ \E i \in Branches : StepCanRaise(i) /\ StepRaises(i)
    \/ GatherTranslate
    \/ Respond

SpecApi == ApiInit /\ [][ApiNext]_vars

(***************************************************************************)
(* Part I: properties of the completion reliability wrapper.               *)
(***************************************************************************)

(* The wording of the specification, written out independently of the      *)
(* operators that model the code.                                          *)
EndsSentence(s) ==
    /\ Len(s) >= 1
    /\ \/ s[Len(s)] \in {".", "!", "?"}
       \/ /\ Len(s) >= 2
          /\ s[Len(s)] \in {"\"", "'", ")", "]"}
          /\ s[Len(s) - 1] \in {".", "!", "?"}

TextComplete(t) ==
    LET s == Strip(t)
    IN /\ s # <<>>
       /\ require_sentence_end => EndsSentence(s)
       /\ min_chars # None => Len(s) >= min_chars

SpecRetryable(e) ==
    \/ e.cls = "RetryableCompletionError"
    \/ e.message \in {MsgNoChoices, MsgEmptyContent}
    \/ e.status >= 500

NominalDelay(n) == IF 1000 * 2 ^ (n - 1) < 8000 THEN 1000 * 2 ^ (n - 1) ELSE 8000

ConcatExpected == Strip(RStrip(result) \o <<" ">> \o LStrip(completion))

(* C1: against a client whose every call fails with 'empty content', a     *)
(* call with retries = R >= 0 never returns, makes no more than R+1        *)
(* attempts, and when it raises it has made exactly R+1 attempts (one chat *)
(* call each) and raises the error of the last attempt.                    *)
C1_ExhaustedRetries ==
    (client = "AlwaysEmptyClient" /\ retries >= 0) =>
        /\ cpc # "returned"
        /\ runs <= retries + 1
        /\ chatCalls = runs
        /\ cpc = "raised" =>
              /\ runs = retries + 1
              /\ raised.message = MsgEmptyContent
              /\ raised.attempt = runs

C1_Witness ==
    /\ cpc = "raised"
    /\ client = "AlwaysEmptyClient"
    /\ retries >= 3
    /\ runs = retries + 1

(* C2 as stated: after a continuation call that returned, with the joined  *)
(* text complete, the call returns exactly                                 *)
(* firstPart.rstrip() + " " + continuation.lstrip().                       *)
C2_Original ==
    (completion # Unset /\ TextComplete(ConcatExpected)) =>
        /\ cpc = "returned"
        /\ returned[1] = RStrip(result) \o <<" ">> \o LStrip(completion)

(* C2 amended: with requireSentenceEnd set and a first response that does  *)
(* not end a sentence, a continuation that makes the joined text complete  *)
(* makes the call return, from that same attempt and without a further     *)
(* attempt, (firstPart.rstrip() + " " + continuation.lstrip()).strip().    *)
C2_ContinuationJoined ==
    (completion # Unset /\ TextComplete(ConcatExpected)) =>
        /\ require_sentence_end
        /\ ~EndsSentence(Strip(result))
        /\ cpc = "returned"
        /\ returned[1] = ConcatExpected
        /\ attempt = runs - 1
        /\ sleeps = runs - 1

C2_Witness ==
    /\ cpc = "returned"
    /\ completion # Unset
    /\ result # <<>>
    /\ completion # <<>>
    /\ runs = 2

(* C3 as stated: every attempt sends a nonce system message ahead of the   *)
(* real messages, and the nonce of each attempt differs from the nonce of  *)
(* every earlier attempt of the same call.                                 *)
C3_FreshNoncePerAttempt ==
    /\ lastSent # <<>> =>
          /\ lastSent[1].role = "system"
          /\ lastSent[1].content[1] = "nonce"
          /\ SubSeq(lastSent, 2, 1 + Len(messages)) = messages
    /\ \A i, k \in DOMAIN firstNonces : i # k => firstNonces[i] # firstNonces[k]

(* C4: a failed attempt is followed by a sleep exactly when its error is   *)
(* retryable (completeness error, 'no choices', 'empty content', HTTP      *)
(* status >= 500) and attempts remain; any other error is raised out of    *)
(* the attempt that produced it, without a sleep for it and without a      *)
(* later chat call.                                                        *)
C4_RetryOnlyRetryable ==
    /\ cpc = "sleep" =>
          /\ SpecRetryable(exc)
          /\ attempt <= EffectiveRetries
          /\ sleeps = attempt
    /\ cpc = "raised" =>
          /\ raised = exc
          /\ ~SpecRetryable(raised) \/ attempt > EffectiveRetries
          /\ raised.attempt = runs
          /\ attempt = runs
          /\ sleeps = runs - 1
          /\ chatCalls <= 2 * runs

C4_Witness ==
    /\ cpc = "raised"
    /\ raised.status = 499
    /\ retries >= 2
    /\ runs = 1
    /\ chatCalls = 1
    /\ sleeps = 0

(* C5: a returned text is complete (non-empty after stripping, ending a    *)
(* sentence when requireSentenceEnd is set, at least minChars long when    *)
(* minChars is given); an attempt whose final text is incomplete ends in a *)
(* retryable completeness error.                                           *)
C5_ReturnedTextComplete ==
    LET continued == completion # Unset
        settled == /\ cpc \in {"sleep", "raised", "returned"}
                   /\ result # Unset
                   /\ continued \/ ~require_sentence_end \/ EndsSentence(Strip(result))
        finalText == IF continued THEN ConcatExpected ELSE result
    IN /\ cpc = "returned" => TextComplete(returned[1])
       /\ (settled /\ ~TextComplete(finalText)) =>
              /\ cpc # "returned"
              /\ exc.cls = "RetryableCompletionError"
              /\ _is_retryable_llm_error(exc)
              /\ cpc = "sleep" \/ attempt > EffectiveRetries

C5_Witness ==
    /\ cpc = "returned"
    /\ min_chars # None
    /\ require_sentence_end
    /\ completion = Unset
    /\ Len(Strip(returned[1])) = min_chars

(* C6: the delay slept before the n-th retry lies within 20% of            *)
(* min(8 s, 1 s * 2^(n-1)) and is not negative; there are at most          *)
(* `retries` sleeps and none after the final failed attempt.               *)
C6_BackoffDelay ==
    /\ sleeps <= EffectiveRetries
    /\ cpc = "sleep" =>
          /\ sleeps = attempt
          /\ delay >= 0
          /\ 10 * delay >= 8 * NominalDelay(sleeps)
          /\ 10 * delay <= 12 * NominalDelay(sleeps)
    /\ cpc = "raised" => sleeps = runs - 1

C6_Witness ==
    /\ cpc = "sleep"
    /\ sleeps = 5
    /\ delay = 9600

(***************************************************************************)
(* Part II: properties of the branch fan-out.                              *)
(***************************************************************************)
Tasks == DOMAIN tpc
Completed == {i \in Tasks : tpc[i] = "done"}
Failed == {i \in Tasks : tpc[i] = "failed"}
InUnitOfWork == {i \in Tasks : tpc[i] \in StepNames}
Merged == gpc \in {"telemetry", "done"} /\ Tasks # {}
PositionIn(seq, x) == CHOOSE k \in 1..Len(seq) : seq[k] = x

C8_BoundedConcurrency ==
    LET width == IF graph = TranslateGraph /\ max_concurrency < 1 THEN 1 ELSE max_concurrency
    IN Cardinality(InUnitOfWork) <= width

C8_Witness ==
    /\ max_concurrency >= 1
    /\ Len(worldviews) > max_concurrency
    /\ Cardinality(InUnitOfWork) = max_concurrency
    /\ \E i \in Tasks : tpc[i] = "waiting"

(* C9 as stated: when every branch of a run fails, the run raises; it      *)
(* never returns a result with zero branches (in either graph).            *)
C9_AllFailedRaises ==
    (gpc = "done" /\ Tasks # {} /\ Failed = Tasks) => outcome.status = "raised"

(* C10: the merged collection is determined by the branch outcomes alone:  *)
(* it holds exactly one answer per key of a completed branch, for a key    *)
(* that occurs more than once the answer of the last such branch in the    *)
(* worldview list (whatever the order of completion), and no other entry;  *)
(* a key that occurs twice does not make the run raise.                    *)
C10_MergeOrderIndependent ==
    Merged =>
        LET keys == {worldviews[i] : i \in Completed}
            LastCompleted(k) ==
                CHOOSE i \in Completed :
                    /\ worldviews[i] = k
                    /\ \A m \in Completed : worldviews[m] = k => m <= i
        IN /\ \A k \in keys :
                /\ Cardinality({x \in DOMAIN results_map : results_map[x].worldview = k}) = 1
                /\ \E x \in DOMAIN results_map : results_map[x] = answers[LastCompleted(k)]
           /\ \A x \in DOMAIN results_map : results_map[x].worldview \in keys
           /\ Len(results_map) = Cardinality(keys)
           /\ outcome.status = "returned" => outcome.worldviews = results_map
           /\ (gpc = "done" /\ Completed # {}) => outcome.status = "returned"

C10_Witness ==
    /\ gpc = "done"
    /\ outcome.status = "returned"
    /\ \E i, m \in Completed :
          /\ i < m
          /\ worldviews[i] = worldviews[m]
          /\ answers[i] # answers[m]
          /\ PositionIn(finished, m) < PositionIn(finished, i)
          /\ \E x \in DOMAIN outcome.worldviews : outcome.worldviews[x] = answers[m]

(***************************************************************************)
(* The order of the steps of a branch, in the words of the specification.  *)
(***************************************************************************)
StepOrder == <<"ctx1", "what", "ctx2", "how">>

IsPrefix(a, b) == Len(a) <= Len(b) /\ SubSeq(b, 1, Len(a)) = a

(* C11: a branch starts its steps in the order context1, what, context2,   *)
(* how; a step starts only when every earlier step of the branch has       *)
(* finished; and the prompt of the how step carries the output of the what *)
(* step of the same branch.                                                *)
C11_BranchStepsInOrder ==
    \A i \in DOMAIN locals :
        /\ IsPrefix(locals[i].started, StepOrder)
        /\ IsPrefix(locals[i].ended, locals[i].started)
        /\ Len(locals[i].started) - Len(locals[i].ended) \in {0, 1}
        /\ tpc[i] \in RaisingSteps =>
              /\ locals[i].started # <<>>
              /\ locals[i].started[Len(locals[i].started)] = tpc[i]
              /\ Len(locals[i].ended) = Len(locals[i].started) - 1
        /\ Len(locals[i].started) = 4 =>
              /\ locals[i].main_points \in Texts
              /\ locals[i].how_prompt = locals[i].main_points

(* A later branch has gone through all four steps, the what step having    *)
(* answered "t2", while an earlier branch is still in its first step.      *)
C11_Witness ==
    \E i, m \in DOMAIN locals :
        /\ m < i
        /\ tpc[m] = "ctx1"
        /\ tpc[i] \in EventSteps
        /\ locals[i].ended = StepOrder
        /\ locals[i].main_points = "t2"
        /\ locals[i].how_prompt = "t2"

(* C12: a failure of the event-log sink is never surfaced: no branch ends  *)
(* with the sink's error, and the run does not raise it.                   *)
C12_SinkFailureNeverSurfaces ==
    /\ \A i \in DOMAIN answers :
          answers[i].kind = "exception" => answers[i].error # SinkError
    /\ outcome.error # SinkError

(***************************************************************************)
(* Part III: properties of the reranker and of the adaptive cascade, in    *)
(* the words of the specification.                                         *)
(***************************************************************************)
TotalTextLength(list) ==
    LET upTo[n \in 0..Len(list)] == IF n = 0 THEN 0 ELSE upTo[n - 1] + list[n].chars
    IN upTo[Len(list)]

Thin(list) == Len(list) < k_final \/ TotalTextLength(list) < 400

SpecBaseStrategy ==
    IF sparse_only THEN "sparse"
    ELSE IF hybrid /\ settings.use_hybrid_retrieval THEN "hybrid"
    ELSE "dense"

FirstPassDecided == pass = 1 /\ wpc \in {"widen", "path_done"}

(* C13: the path widens exactly when the reranked result of its first pass *)
(* has fewer than kFinal items or less than 400 characters in total.       *)
C13_WidenExactlyWhenThin ==
    /\ FirstPassDecided => (wpc = "widen" <=> Thin(reranked))
    /\ pass = 2 => Thin(first_pass)

(* Exactly kFinal items of 399 characters in total: the path widens. *)
C13_Witness ==
    /\ wpc = "widen"
    /\ k_final >= 1
    /\ Len(reranked) = k_final
    /\ TotalTextLength(reranked) = 399

SparseScenario ==
    /\ sparse_only
    /\ k_final = 6
    /\ Len(qdrant_client.sparse) = 10
    /\ \A i \in 1..10 : qdrant_client.sparse[i].chars = 50
    /\ wpc = "done"

(* C14 as stated: in the scenario of 10 sparse hits of 50 characters and   *)
(* kFinal = 6 the cascade returns 6 hits with mode "sparse" after a single *)
(* sparse search, and widenedHits is empty.                                *)
C14_Original ==
    SparseScenario =>
        /\ chosen.status = "returned"
        /\ Len(chosen.hits) = 6
        /\ chosen.mode = "sparse"
        /\ Len(calls) = 1
        /\ chosen.widened_hits = <<>>

(* C14 as amended: in that scenario the cascade returns 6 hits with mode   *)
(* "sparse" after widening once: the 6 reranked hits have 300 characters,  *)
(* so a second sparse search is issued at the widen-to count and           *)
(* widenedHits holds its 10 hits.                                          *)
C14_SparseScenarioWidens ==
    SparseScenario =>
        /\ chosen.status = "returned"
        /\ Len(chosen.hits) = 6
        /\ chosen.mode = "sparse"
        /\ TotalTextLength(first_pass) = 300
        /\ Len(calls) = 2
        /\ calls[1] = [primitive |-> "sparse", k |-> <<k_base>>, pass |-> 1]
        /\ calls[2] = [primitive |-> "sparse", k |-> <<widen_to>>, pass |-> 2]
        /\ Len(chosen.widened_hits) = 10

C14_Witness == SparseScenario /\ k_base = 10 /\ widen_to = 18

(* C15: a thin first pass is followed by one more call of the same         *)
(* primitive at the widen-to count, whose reranked result is the result of *)
(* the path; a first pass that is not thin is followed by no call.         *)
C15_WidenRerunsSamePrimitive ==
    wpc = "done" =>
        IF Thin(base.first_pass)
        THEN /\ Len(calls) >= 2
             /\ calls[2] = [primitive |-> calls[1].primitive, k |-> <<widen_to>>, pass |-> 2]
             /\ base.widened_hits # <<>> \/ base.hits = <<>>
        ELSE /\ Len(calls) = 1
             /\ chosen.widened_hits = <<>>

NoSparseText ==
    \A i \in 1..Len(qdrant_client.sparse) :
        i <= widen_to => qdrant_client.sparse[i].chars = 0

(* C16: a sparse-only cascade raises when the sparse search finds nothing  *)
(* also after widening, and never returns an outcome without hits.         *)
C16_SparseOnlyNeverEmpty ==
    (wpc = "done" /\ sparse_only) =>
        /\ chosen.status \in {"returned", "raised"}
        /\ chosen.status = "returned" => chosen.hits # <<>>
        /\ NoSparseText => chosen.status = "raised"

(* Nothing found at the base count, nothing found at the widen-to count. *)
C16_Witness ==
    /\ wpc = "done"
    /\ sparse_only
    /\ k_final >= 1
    /\ Len(calls) = 2
    /\ calls[2] = [primitive |-> "sparse", k |-> <<widen_to>>, pass |-> 2]
    /\ hits = <<>>
    /\ chosen.status = "raised"

(* C17 as stated: the first retrieval call is the primitive of the base    *)
(* strategy, at the base candidate count of the stage.                     *)
C17_Original ==
    calls # <<>> =>
        /\ calls[1].primitive = SpecBaseStrategy
        /\ calls[1].k = <<k_base>>

(* C17 as amended: the first retrieval call is the primitive of the base   *)
(* strategy: sparse or dense at the base candidate count of the stage,     *)
(* hybrid at the dense, sparse and fused counts of the configuration.      *)
C17_FirstCallIsBaseStrategy ==
    calls # <<>> =>
        /\ calls[1].primitive = SpecBaseStrategy
        /\ calls[1].pass = 1
        /\ calls[1].k = IF SpecBaseStrategy = "hybrid"
                        THEN <<cfg.hybrid_k_dense, cfg.hybrid_k_sparse, cfg.hybrid_k_fused>>
                        ELSE <<k_base>>

C17_Witness ==
    /\ wpc = "done"
    /\ hybrid
    /\ ~sparse_only
    /\ calls[1].primitive = "hybrid"
    /\ chosen.mode = "hybrid"

FallbackRan == \E j \in DOMAIN calls : j > 1 /\ calls[j].primitive = "hybrid"

(* C18: the hybrid path is run after the base path exactly when the base   *)
(* strategy is not hybrid, hybrid is enabled, the fallback flag is set and *)
(* the first pass of the base path, before widening, was thin.             *)
C18_FallbackExactlyWhenThinBeforeWidening ==
    wpc = "done" =>
        (FallbackRan <=>
            /\ SpecBaseStrategy # "hybrid"
            /\ settings.use_hybrid_retrieval
            /\ settings.hybrid_fallback_on_thin
            /\ Thin(base.first_pass))

SpecBetter(candidate, current) ==
    \/ Len(candidate) > Len(current)
    \/ Len(candidate) = Len(current) /\ TotalTextLength(candidate) > TotalTextLength(current)

HybridLabel == CASE base.mode_label = "dense" -> "dense->hybrid"
                 [] base.mode_label = "sparse" -> "sparse->hybrid"
                 [] OTHER -> "none"

(* C19: after the hybrid path has run, the hybrid candidate is the outcome *)
(* and the mode is "<base>->hybrid" exactly when it has more hits than the *)
(* base candidate, or as many hits and more characters; otherwise the      *)
(* outcome is the base candidate under the base label.                     *)
C19_HybridWinsOnlyWithMoreHits ==
    (wpc = "done" /\ FallbackRan) =>
        IF SpecBetter(reranked, base.hits)
        THEN chosen.hits = reranked /\ chosen.mode = HybridLabel
        ELSE chosen.hits = base.hits /\ chosen.mode = base.mode_label

RerankDone == wpc \in {"widen", "path_done", "done"}

(* C20: the reranker returns min(m, kFinal) of its m candidates, each one  *)
(* a candidate, none of them twice.                                        *)
C20_RerankTruncates ==
    RerankDone =>
        /\ Len(reranked) = (IF Len(hits) < k_final THEN Len(hits) ELSE k_final)
        /\ \A p \in DOMAIN reranked : \E q \in DOMAIN hits : reranked[p] = hits[q]
        /\ \A p, q \in DOMAIN reranked : p # q => reranked[p] # reranked[q]

(* More candidates than kFinal, and the kept ones are not simply the first. *)
C20_Witness ==
    /\ wpc = "path_done"
    /\ k_final >= 1
    /\ Len(hits) > k_final
    /\ Len(reranked) = k_final
    /\ reranked # SubSeq(hits, 1, k_final)

(***************************************************************************)
(* Part IV: properties of the retrieval helpers, in the words of the       *)
(* specification.                                                          *)
(***************************************************************************)
IssuedCalls == {effects[j].call : j \in DOMAIN effects}

(* C21: the embedding reranker called with an empty candidate list returns *)
(* an empty list and issues no call to the embedding service, neither for  *)
(* the query nor for candidates.                                           *)
C21_EmptyRerankIssuesNoEmbedding ==
    (op.name = "rerank_by_embedding" /\ op.snippets = <<>>) =>
        /\ ret.status = "returned"
        /\ ret.value = <<>>
        /\ "embed_texts" \notin IssuedCalls

C21_Witness ==
    /\ op.name = "rerank_by_embedding"
    /\ op.snippets = <<>>
    /\ op.k_final = 6
    /\ ret.status = "returned"

(* Two snippets stand for the same chunk identity: the same chunk id, or,  *)
(* without a chunk id, the same object.                                    *)
SameIdentity(a, b) ==
    IF a.chunk_id # NoChunkId THEN a.chunk_id = b.chunk_id
    ELSE b.chunk_id = NoChunkId /\ a.oid = b.oid

RankOf(list, x) ==
    IF \E r \in DOMAIN list : SameIdentity(list[r], x)
    THEN CHOOSE r \in DOMAIN list : SameIdentity(list[r], x)
    ELSE 0

(* The sum of 1/(60 + rank) over the two lists, as a fraction *)
ReciprocalRankSum(A, B, x) ==
    LET a == RankOf(A, x)
        b == RankOf(B, x)
    IN IF a > 0 /\ b > 0 THEN [num |-> (60 + a) + (60 + b), den |-> (60 + a) * (60 + b)]
       ELSE IF a > 0 THEN [num |-> 1, den |-> 60 + a]
       ELSE IF b > 0 THEN [num |-> 1, den |-> 60 + b]
       ELSE [num |-> 0, den |-> 1]

SameScore(x, y) == x.num * y.den = y.num * x.den
ScoreAtLeast(x, y) == x.num * y.den >= y.num * x.den

FuseCalled == op.name = "_rrf_fuse" /\ ret.status = "returned"

(* C22 as stated: fuse(A,B) and fuse(B,A) list the same chunk identities   *)
(* in the same order, and fusing a list with itself leaves the relative    *)
(* order of every item unchanged.                                          *)
C22_Original ==
    FuseCalled =>
        LET ab == ret.value
            ba == _rrf_fuse(op.sparse_hits, op.dense_hits, op.k_fused)
        IN /\ Len(ab) = Len(ba)
           /\ \A p \in DOMAIN ab : SameIdentity(ab[p], ba[p])
           /\ op.dense_hits = op.sparse_hits => ab = SliceTo(op.dense_hits, op.k_fused)

(* C22 as amended: fuse(A,B) and fuse(B,A) have the same length and the    *)
(* same summed score at every position, so that two items whose summed     *)
(* scores differ come in the same order in both, while items of equal      *)
(* summed score come in the order they were first seen in and may change   *)
(* places; fusing a list with itself leaves the relative order of every    *)
(* item unchanged.                                                         *)
C22_FusionCommutesInScores ==
    FuseCalled =>
        LET A == op.dense_hits
            B == op.sparse_hits
            ab == ret.value
            ba == _rrf_fuse(B, A, op.k_fused)
        IN /\ Len(ab) = Len(ba)
           /\ \A p \in DOMAIN ab :
                SameScore(ReciprocalRankSum(A, B, ab[p]), ReciprocalRankSum(A, B, ba[p]))
           /\ \A p, q \in DOMAIN ab :
                (p < q /\ ~SameScore(ReciprocalRankSum(A, B, ab[p]), ReciprocalRankSum(A, B, ab[q])))
                    => \A i, j \in DOMAIN ba :
                         (SameIdentity(ba[i], ab[p]) /\ SameIdentity(ba[j], ab[q])) => i < j
           /\ A = B => ab = SliceTo(A, op.k_fused)

(* Two lists that share a chunk and whose first items have equal summed     *)
(* scores: fused to two items, each order starts with its own first item.  *)
C22_Witness ==
    /\ FuseCalled
    /\ Len(op.dense_hits) = 3
    /\ Len(op.sparse_hits) = 3
    /\ op.dense_hits # op.sparse_hits
    /\ \E x \in DOMAIN op.dense_hits : RankOf(op.sparse_hits, op.dense_hits[x]) > 0
    /\ Len(ret.value) = 2
    /\ ~SameIdentity(ret.value[1], _rrf_fuse(op.sparse_hits, op.dense_hits, op.k_fused)[1])

Inputs == op.dense_hits \o op.sparse_hits

Identities ==
    Cardinality({Inputs[j].chunk_id : j \in {i \in DOMAIN Inputs : Inputs[i].chunk_id # NoChunkId}})
        + Cardinality({Inputs[j].oid : j \in {i \in DOMAIN Inputs : Inputs[i].chunk_id = NoChunkId}})

(* C23: the output of rank fusion holds each chunk identity at most once,  *)
(* has at most kFused elements (the kFused best, or all), lists them in    *)
(* non-increasing order of their summed reciprocal-rank score, gives for   *)
(* every identity the snippet object first seen for it (dense list before  *)
(* sparse list), and never merges two snippets that lack a chunk id.       *)
C23_FusionOutput ==
    FuseCalled =>
        LET A == op.dense_hits
            B == op.sparse_hits
            out == ret.value
        IN /\ \A p, q \in DOMAIN out : p # q => ~SameIdentity(out[p], out[q])
           /\ Len(out) <= op.k_fused
           /\ Len(out) = Min(op.k_fused, Identities)
           /\ \A p, q \in DOMAIN out :
                p < q => ScoreAtLeast(ReciprocalRankSum(A, B, out[p]), ReciprocalRankSum(A, B, out[q]))
           /\ \A j \in DOMAIN Inputs, p \in DOMAIN out :
                ScoreAtLeast(ReciprocalRankSum(A, B, out[p]), ReciprocalRankSum(A, B, Inputs[j]))
                    \/ \E q \in DOMAIN out : SameIdentity(out[q], Inputs[j])
           /\ \A p \in DOMAIN out :
                IF RankOf(A, out[p]) > 0 THEN out[p] = A[RankOf(A, out[p])]
                ELSE RankOf(B, out[p]) > 0 /\ out[p] = B[RankOf(B, out[p])]
           /\ \A i, j \in DOMAIN Inputs :
                (Inputs[i].chunk_id = NoChunkId /\ Inputs[j].chunk_id = NoChunkId
                    /\ Inputs[i].oid # Inputs[j].oid /\ op.k_fused >= Identities)
                    => \E p, q \in DOMAIN out : p # q /\ out[p] = Inputs[i] /\ out[q] = Inputs[j]

(* A chunk found by both searches, two snippets without chunk id at the    *)
(* same rank of the two lists, and a cut below the number of identities.   *)
C23_Witness ==
    /\ FuseCalled
    /\ op.dense_hits # op.sparse_hits
    /\ \E r \in DOMAIN op.dense_hits :
         /\ op.dense_hits[r].chunk_id = NoChunkId
         /\ r \in DOMAIN op.sparse_hits
         /\ op.sparse_hits[r].chunk_id = NoChunkId
    /\ \E r \in DOMAIN op.dense_hits :
         /\ op.dense_hits[r].chunk_id # NoChunkId
         /\ RankOf(op.sparse_hits, op.dense_hits[r]) > 0
    /\ op.k_fused = 2
    /\ Identities > 2
    /\ Len(ret.value) = 2

HybridCalled == op.name = "hybrid_retrieve" /\ ret.status = "returned"
HybridEnabled == settings.use_hybrid_retrieval \/ op.force_sparse
SparseSearchThrew ==
    "search_sparse_points" \in IssuedCalls /\ qdrant_client.search_sparse_points = "raises"

(* C24 as stated: the hybrid primitive always runs the dense search; it    *)
(* runs the sparse search only if hybrid mode is globally enabled or       *)
(* forced; if the sparse search throws it returns the dense-only result    *)
(* without raising; and a throwing sparse search is the only situation in  *)
(* which an enabled hybrid call returns an unfused dense-only result.      *)
C24_Original ==
    HybridCalled =>
        /\ "search_points" \in IssuedCalls
        /\ "search_sparse_points" \in IssuedCalls => HybridEnabled
        /\ SparseSearchThrew => ret.value = dense_retrieve(op.k_dense)
        /\ (HybridEnabled /\ op.path # "fused") => SparseSearchThrew

(* C24 as amended: ... and an enabled hybrid call returns an unfused       *)
(* dense-only result only when the sparse search throws, when the store    *)
(* has no sparse search, or when the sparse candidate count is not         *)
(* positive.                                                               *)
C24_HybridDegradesToDense ==
    HybridCalled =>
        /\ "search_points" \in IssuedCalls
        /\ "search_sparse_points" \in IssuedCalls => HybridEnabled
        /\ SparseSearchThrew => ret.value = dense_retrieve(op.k_dense)
        /\ (HybridEnabled /\ op.path # "fused") =>
              \/ SparseSearchThrew
              \/ qdrant_client.search_sparse_points = "absent"
              \/ op.k_sparse <= 0
        /\ op.path = "fused" =>
              ret.value = _rrf_fuse(dense_retrieve(op.k_dense), sparse_retrieve(op.k_sparse),
                                    op.k_fused)

(* A forced hybrid call, hybrid mode being disabled, whose sparse search   *)
(* throws: the dense hits come back.                                       *)
C24_Witness ==
    /\ HybridCalled
    /\ ~settings.use_hybrid_retrieval
    /\ op.force_sparse
    /\ SparseSearchThrew
    /\ ret.value # <<>>
    /\ ret.value = dense_retrieve(op.k_dense)

RECURSIVE LengthSum(_)
LengthSum(list) == IF list = <<>> THEN 0 ELSE Head(list).chars + LengthSum(Tail(list))

NotBlank(x) == x.chars > 0
HasChunkId(x) == x.chunk_id # NoChunkId

(* C28: context building takes the snippet texts in order and stops at the *)
(* first one that would push the total of the included lengths over the    *)
(* budget; the included lengths never exceed the budget; and the returned  *)
(* provenance identifiers are exactly the chunk ids of the snippets whose  *)
(* text was included, in inclusion order.                                  *)
C28_ContextWithinBudget ==
    (op.name = "build_context" /\ ret.status = "returned") =>
        LET texts == SelectSeq(op.snippets, NotBlank)
            included == ret.value.parts
            withId == SelectSeq(included, HasChunkId)
        IN /\ Len(included) <= Len(texts)
           /\ included = SubSeq(texts, 1, Len(included))
           /\ LengthSum(included) <= op.max_chars
           /\ Len(included) < Len(texts) =>
                 LengthSum(SubSeq(texts, 1, Len(included) + 1)) > op.max_chars
           /\ ret.value.refs = [j \in 1..Len(withId) |-> withId[j].chunk_id]

DerivedStages(g) ==
    IF g = ConceptGraph THEN {"concept", "context1", "context2"} ELSE {"context1", "context2"}

StageOf(c, st) ==
    CASE st = "concept" -> [base |-> c.k_base_concept, final |-> c.k_final_concept,
                            widen |-> c.widen_concept]
      [] st = "context1" -> [base |-> c.k_base_context1, final |-> c.k_final_context1,
                             widen |-> c.widen_context1]
      [] OTHER -> [base |-> c.k_base_context2, final |-> c.k_final_context2,
                   widen |-> c.widen_context2]

(* C29: a RetrievalConfig a graph derives from the settings has, for each  *)
(* stage, widen-to >= final and base >= final >= 1, for every configured   *)
(* final count >= 1; the final count of a stage the graph sizes from the   *)
(* settings is the configured one.                                         *)
C29_DerivedConfigKeepsOrder ==
    (op.name = "derive_config" /\ ret.status = "returned") =>
        /\ \A st \in {"concept", "context1", "context2"} :
             /\ StageOf(ret.value, st).widen >= StageOf(ret.value, st).final
             /\ StageOf(ret.value, st).base >= StageOf(ret.value, st).final
             /\ StageOf(ret.value, st).final >= 1
        /\ \A st \in DerivedStages(op.graph) : StageOf(ret.value, st).final = op.cewv_k_final[st]

(* Final counts above the default base counts and above a third of the     *)
(* default widen-to counts.                                                *)
C29_Witness ==
    /\ op.name = "derive_config"
    /\ op.graph = ConceptGraph
    /\ op.cewv_k_final = [concept |-> 19, context1 |-> 11, context2 |-> 19]
    /\ ret.value.k_base_concept = 19
    /\ ret.value.widen_context1 = 33

SpecTag(t) == IF t = "primary" THEN "book" ELSE IF t = "secondary" THEN "secondary_book" ELSE t

Conditions(f, field) == {j \in DOMAIN f.must : f.must[j].key = field}

(* C30: the filter built from (branchFilter, documentClassTags) is empty   *)
(* when branchFilter is empty and no non-empty tag is given; otherwise it  *)
(* holds an equality match of branchFilter on the worldviews field exactly *)
(* when branchFilter is given, and a match on the type field exactly when  *)
(* a non-empty tag is given: primary -> book, secondary -> secondary_book, *)
(* any other tag verbatim, as a single value for one tag and as any-of for *)
(* several; and nothing else.                                              *)
C30_PayloadFilter ==
    (op.name = "payload_filter" /\ ret.status = "returned") =>
        LET f == ret.value
            given == SelectSeq(op.book_types, NonEmpty)
            tags == [j \in 1..Len(given) |-> SpecTag(given[j])]
            n == (IF op.worldview # "" THEN 1 ELSE 0) + (IF tags # <<>> THEN 1 ELSE 0)
        IN IF op.worldview = "" /\ tags = <<>> THEN DOMAIN f = {}
           ELSE /\ DOMAIN f = {"must"}
                /\ Len(f.must) = n
                /\ op.worldview # "" =>
                     \E j \in Conditions(f, "worldviews") :
                        f.must[j].match = [value |-> op.worldview]
                /\ tags # <<>> =>
                     \E j \in Conditions(f, "chunk_type") :
                        f.must[j].match = IF Len(tags) = 1 THEN [value |-> tags[1]]
                                          ELSE [any |-> tags]

C30_Witness ==
    /\ op.name = "payload_filter"
    /\ op.worldview = "Idealismus"
    /\ op.book_types = <<"primary", "", "secondary">>
    /\ ret.value = [must |-> <<[key |-> "worldviews", match |-> [value |-> "Idealismus"]],
                              [key |-> "chunk_type", match |-> [any |-> <<"book", "secondary_book">>]]>>]

(***************************************************************************)
(* Part V: properties of step 1 of the concept graph (SpecConcept)         *)
(***************************************************************************)
GraphFailedWith(err) ==
    /\ gpc = "done"
    /\ outcome.status = "raised"
    /\ outcome.error = err

NothingGenerated ==
    /\ chatCalls = 0
    /\ gpc # "reasoning"
    /\ tpc = <<>>

OtherErrors ==
    {MsgSparseUnsupported, MsgSearchFailed, StepError, SinkError, "worldviews must not be empty"}

(* C26: when the sparse search finds no text for the concept at the base   *)
(* count and at the widen-to count, the graph run ends with the no-hits    *)
(* error, which no other failure of the run carries, and no chat call is   *)
(* issued and no branch task created.                                      *)
C26_EmptyConceptRetrievalIsFatal ==
    (qdrant_client.search_sparse_points = "present" /\ NoSparseText /\ worldviews # <<>>) =>
        /\ NothingGenerated
        /\ gpc = "done" =>
              /\ calls = <<[primitive |-> "sparse", k |-> <<k_base>>, pass |-> 1],
                           [primitive |-> "sparse", k |-> <<widen_to>>, pass |-> 2]>>
              /\ GraphFailedWith(MsgNoSparseHits)
              /\ outcome.error \notin OtherErrors

C26_Witness ==
    /\ qdrant_client.search_sparse_points = "present"
    /\ Len(qdrant_client.sparse) > 0
    /\ NoSparseText
    /\ Len(calls) = 2
    /\ GraphFailedWith(MsgNoSparseHits)

(***************************************************************************)
(* Part VI: properties of the HTTP layer (SpecApi)                         *)
(***************************************************************************)
(* C27: the kinds of fatal condition (no relevant material, generation     *)
(* backend unavailable, invalid input) are told apart by the error the     *)
(* caller gets: no two failures of different kinds are reported with the   *)
(* same HTTP status.                                                       *)
C27_FatalKindsDistinguished ==
    \A p \in reported : \A q \in reported : p.status = q.status => p.kind = q.kind

(***************************************************************************)
(* Part VII: further properties of the wrapper (SpecChat)                  *)
(***************************************************************************)
ContinuationCalls == chatCalls - runs

(* C35: an attempt issues at most one continuation call, and none when     *)
(* requireSentenceEnd is false or the first response ends in               *)
(* sentence-final punctuation; a call with retries = R >= 0 issues at most *)
(* 2 * (R + 1) chat calls.                                                 *)
C35_AtMostOneContinuation ==
    /\ ContinuationCalls >= 0
    /\ ContinuationCalls <= runs
    /\ cpc = "continuation" =>
          /\ ContinuationCalls <= runs - 1
          /\ require_sentence_end
          /\ ~EndsSentence(Strip(result))
    /\ ~require_sentence_end => ContinuationCalls = 0
    /\ retries >= 0 => chatCalls <= 2 * (retries + 1)

(* Every attempt of a call with retries issued a continuation call. *)
C35_Witness ==
    /\ cpc = "raised"
    /\ retries >= 2
    /\ runs = retries + 1
    /\ chatCalls = 2 * (retries + 1)

(***************************************************************************)
(* Part VIII: further properties of the branch scheduler (SpecGraph,       *)
(* SpecGraphFair)                                                          *)
(***************************************************************************)
ConfiguredWidth ==
    IF graph = TranslateGraph /\ max_concurrency < 1 THEN 1 ELSE max_concurrency

Terminated == {i \in Tasks : tpc[i] \in {"done", "failed"}}

(* C36: a slot is free or held by a branch inside its unit of work, so a   *)
(* branch that fails gives its slot back: once all branches have           *)
(* terminated the free slots are as many as the configured width; with     *)
(* width 1 and the first branch failed, the run ends with every other      *)
(* branch having run its unit of work.                                     *)
C36_FailedBranchReleasesSlot ==
    (Tasks # {}) =>
        /\ semaphore.value + Cardinality(InUnitOfWork) = ConfiguredWidth
        /\ Terminated = Tasks => semaphore.value = ConfiguredWidth
        /\ (gpc = "done" /\ ConfiguredWidth = 1 /\ tpc[1] = "failed") =>
              \A i \in Tasks : tpc[i] \in {"done", "failed"} /\ unitRuns[i] = 1

C36_Witness ==
    /\ gpc = "done"
    /\ ConfiguredWidth = 1
    /\ Len(worldviews) = 2
    /\ finished = <<1, 2>>
    /\ tpc = <<"failed", "done">>
    /\ 2 \in queued
    /\ semaphore.value = 1

(* C37: with every remote call eventually returning or raising, a run      *)
(* eventually returns or raises, whatever the number of branches and the   *)
(* max_concurrency argument (0 included), and then no branch is running or *)
(* waiting for a slot.                                                     *)
C37_FanOutTerminates ==
    <>(gpc = "done" /\ Terminated = Tasks)


(***************************************************************************)
(* Part IX: the event log of step 1 of the concept graph.                  *)
(***************************************************************************)
(* The concept retrieval came back without hits, by its outcome or by the  *)
(* error it raises for an empty sparse search.                             *)
ConceptRetrievalEmpty ==
    /\ wpc = "done"
    /\ \/ chosen.status = "returned" /\ chosen.hits = <<>>
       \/ chosen.status = "raised" /\ chosen.error = MsgNoSparseHits

EmptyHitsEvent == GraphEvent("concept_retrieval", 0, <<"no_sparse_hits">>, TRUE)

(* C38: when the concept retrieval yields no hits, the run that aborts     *)
(* has recorded a concept_retrieval event with errors ["no_sparse_hits"]   *)
(* and metadata empty_hits = true (the default event log, which does not   *)
(* raise).                                                                 *)
C38_EmptyRetrievalEventRecorded ==
    (/\ graph = ConceptGraph
     /\ recorder = "GraphEventRecorder"
     /\ ConceptRetrievalEmpty
     /\ gpc = "done")
    => EmptyHitsEvent \in events


(***************************************************************************)
(* Part X: run_translate_to_worldview_graph over a prompts directory in    *)
(* which any of the required prompt files may be missing.                  *)
(***************************************************************************)
TranslateInit ==
    /\ graph = TranslateGraph
    /\ worldviews \in WorldviewLists(MaxBranches)
    /\ max_concurrency \in 1..MaxWidth
    /\ recorder = "GraphEventRecorder"
    /\ gpc = "entry"
    /\ semaphore = [value |-> 0, waiters |-> <<>>]
    /\ tpc = <<>>
    /\ locals = <<>>
    /\ answers = <<>>
    /\ results_map = <<>>
    /\ outcome = NoOutcome
    /\ finished = <<>>
    /\ unitRuns = <<>>
    /\ queued = {}
    (* the retrieval part of the state is at rest *)
    /\ sparse_only = FALSE
    /\ hybrid = FALSE
    /\ k_base = 0
    /\ widen_to = 0
    /\ k_final = 0
    /\ cfg = [hybrid_k_dense |-> 0, hybrid_k_sparse |-> 0, hybrid_k_fused |-> 0]
    /\ settings = [use_hybrid_retrieval |-> FALSE, hybrid_fallback_on_thin |-> FALSE]
    /\ qdrant_client = [dense |-> <<>>, sparse |-> <<>>]
    /\ wpc = "idle"
    /\ mode = "none"
    /\ pass = 0
    /\ hits = <<>>
    /\ reranked = <<>>
    /\ widened_hits = <<>>
    /\ base = NoPath
    /\ chosen = NoRetrieval
    /\ first_pass = <<>>
    /\ calls = <<>>
    /\ ingestions = 0
    (* no event is recorded, the collection is empty; any prompt file may be missing *)
    /\ events = {}
    /\ missing_prompts \in SUBSET (ALLOWED_WORLDVIEWS \X {REQUIRED_PROMPTS[k] : k \in 1..Len(REQUIRED_PROMPTS)})
    /\ points = {}
    (* no request is being served *)
    /\ request = [endpoint |-> "none"]
    /\ env = [backend |-> "up", store |-> "up"]
    /\ response = [status |-> 0, detail |-> ""]
    /\ reported = {}
    (* no retrieval helper has been called *)
    /\ op = NoCall
    /\ ret = NoReturn
    /\ effects = <<>>
    (* the wrapper part of the state is at rest *)
    /\ client = "DeepSeekClient"
    /\ retries = 0
    /\ min_chars = None
    /\ require_sentence_end = TRUE
    /\ now = 0
    /\ nonce = 0
    /\ result = Unset
    /\ completion = Unset
    /\ lastSent = <<>>
    /\ attempt = 0
    /\ delay = 0
    /\ exc = NoError
    /\ cpc = "idle"
    /\ returned = <<>>
    /\ raised = NoError
    /\ runs = 0
    /\ chatCalls = 0
    /\ sleeps = 0
    /\ firstNonces = <<>>

TranslateNext ==
    \/ Validate
    \/ \E i \in Branches : StartTask(i)
    \/ \E i \in Branches : AcquireAfterWait(i)
    \/ \E i \in Branches : StepReturns(i)
    \/ \E i \in Branches : StepRaises(i)
    \/ GatherTranslate

SpecTranslate == TranslateInit /\ [][TranslateNext]_vars

(* Some requested worldview lacks a required prompt file. *)
SomePromptMissing ==
    \E i \in 1..Len(worldviews), k \in 1..Len(REQUIRED_PROMPTS) :
        <<worldviews[i], REQUIRED_PROMPTS[k]>> \in missing_prompts

(* No retrieval, embedding, chat or event-log call was made and no branch  *)
(* was started.                                                            *)
NothingStarted ==
    /\ tpc = <<>>
    /\ unitRuns = <<>>
    /\ locals = <<>>
    /\ events = {}
    /\ calls = <<>>
    /\ effects = <<>>
    /\ chatCalls = 0

(* C31: when prompt files are missing for any requested worldview, even if *)
(* the others are complete, the translate graph does nothing but raise a   *)
(* ValueError that names missing prompts of a requested worldview: no      *)
(* call is made and no branch is started.                                  *)
C31_MissingPromptsFailFast ==
    (graph = TranslateGraph /\ SomePromptMissing) =>
        /\ NothingStarted
        /\ gpc \in {"entry", "done"}
        /\ gpc = "done" =>
              /\ outcome.status = "raised"
              /\ \E i \in 1..Len(worldviews) :
                    /\ MissingPrompts(worldviews[i], REQUIRED_PROMPTS) # <<>>
                    /\ outcome.error = "Missing sigrid-von-gleich worldview prompt(s): "
                                          \o JoinComma(MissingPrompts(worldviews[i], REQUIRED_PROMPTS))

(* A run over a complete and an incomplete worldview has raised. *)
C31_Witness ==
    /\ graph = TranslateGraph
    /\ gpc = "done"
    /\ outcome.status = "raised"
    /\ Len(worldviews) >= 2
    /\ MissingPrompts(worldviews[1], REQUIRED_PROMPTS) = <<>>
    /\ \E i \in 2..Len(worldviews) : MissingPrompts(worldviews[i], REQUIRED_PROMPTS) # <<>>


(***************************************************************************)
(* Part XI: the sufficiency label of a branch answer.                      *)
(***************************************************************************)
SufficiencyLabels == {"insufficient", "low", "medium", "high"}

(* C39: the sufficiency of a returned branch answer is the label that      *)
(* _assess_sufficiency computes from the context2 hits and text, one of    *)
(* insufficient, low, medium, high; an answer whose context2 retrieval     *)
(* produced no hits carries 'insufficient' with error 'no_context2_hits'.  *)
C39_SufficiencyIsAssessed ==
    (op.name = "branch_answer") =>
        /\ ret.value.sufficiency \in SufficiencyLabels
        /\ ret.value.sufficiency =
              _assess_sufficiency(op.ctx2_hits,
                                  JoinedLen(build_context(op.ctx2_hits, 12000).parts))
        /\ op.ctx2_hits = <<>> =>
              /\ ret.value.sufficiency = "insufficient"
              /\ \E k \in 1..Len(ret.value.errors) : ret.value.errors[k] = "no_context2_hits"


(***************************************************************************)
(* Part XII: IngestionService.upload_chunks and the delete-chunk-ids       *)
(* endpoint over one collection of the vector store.  A point is the       *)
(* payload stored under uuid5(chunk_id), so a collection holds at most one *)
(* point per chunk id.  One call is made on a collection in any state; the *)
(* backends answer.  op and ret hold the call and what it returned or      *)
(* raised, effects the calls made to the embedding service, the vector     *)
(* store and the mirror.                                                   *)
(***************************************************************************)
MaxBatch == 3

ChunkIds == {"a", "b"}
StoredChunkIds == ChunkIds \cup {"z"}
ContentHashes == {"h1", "h2"}
SourceIds == {"s1", "s2"}

(* ChunkRecord: the metadata the service looks at *)
ChunkRecords == [chunk_id : ChunkIds, content_hash : ContentHashes, source_id : SourceIds]

Batches == UNION {[1..n -> ChunkRecords] : n \in 0..MaxBatch}

(* The collections: at most one point per chunk id; "a" is stored under    *)
(* any hash and source, "b" and "z" under one, of different sources.       *)
Collections ==
    {c \in SUBSET [chunk_id : StoredChunkIds, content_hash : ContentHashes, source_id : SourceIds] :
        /\ \A p, q \in c : p.chunk_id = q.chunk_id => p = q
        /\ \A p \in c : p.chunk_id = "z" => p.content_hash = "h1" /\ p.source_id = "s2"
        /\ \A p \in c : p.chunk_id = "b" => p.content_hash = "h1" /\ p.source_id = "s1"}

BackendCall(name, arg) == [call |-> name, arg |-> arg]

ChunkIdsOf(chunks) == [k \in 1..Len(chunks) |-> chunks[k].chunk_id]

DedupeKey_ChunkIdOnly(chunk) == chunk.chunk_id

(* key = (chunk.metadata.chunk_id, chunk.metadata.content_hash) *)
DedupeKey(chunk) == <<chunk.chunk_id, chunk.content_hash>>

RECURSIVE DedupeFrom(_, _, _, _, _)
DedupeFrom(chunks, k, seen, deduped, duplicates) ==
    IF k > Len(chunks) THEN [deduped |-> deduped, duplicates |-> duplicates]
    ELSE IF DedupeKey(chunks[k]) \in seen
    THEN DedupeFrom(chunks, k + 1, seen, deduped, duplicates + 1)
    ELSE DedupeFrom(chunks, k + 1, seen \cup {DedupeKey(chunks[k])},
                    Append(deduped, chunks[k]), duplicates)

_dedupe_chunks(chunks) == DedupeFrom(chunks, 1, {}, <<>>, 0)

(* retrieve_points by uuid5(chunk_id): the payloads, keyed by chunk_id *)
_fetch_existing(collection, chunks) ==
    {p \in collection : \E k \in 1..Len(chunks) : chunks[k].chunk_id = p.chunk_id}

ChunkClass(chunk, existing) ==
    IF ~\E p \in existing : p.chunk_id = chunk.chunk_id THEN "new"
    ELSE IF \E p \in existing : p.chunk_id = chunk.chunk_id /\ p.content_hash = chunk.content_hash
    THEN "unchanged"
    ELSE "changed"

_classify_chunks(chunks, existing) ==
    [unchanged |-> SelectSeq(chunks, LAMBDA c : ChunkClass(c, existing) = "unchanged"),
     changed |-> SelectSeq(chunks, LAMBDA c : ChunkClass(c, existing) = "changed"),
     new |-> SelectSeq(chunks, LAMBDA c : ChunkClass(c, existing) = "new")]

(* upsert_points and set_payload write the payload of the chunk under      *)
(* uuid5(chunk_id), one chunk after the other.                             *)
RECURSIVE WritePoints(_, _)
WritePoints(collection, chunks) ==
    IF chunks = <<>> THEN collection
    ELSE WritePoints({p \in collection : p.chunk_id # Head(chunks).chunk_id} \cup {Head(chunks)},
                     Tail(chunks))

(* delete_points by uuid5(chunk_id) *)
DeletePoints(collection, chunk_ids) == {p \in collection : p.chunk_id \notin chunk_ids}

(* stale_ids of one source_id: the chunk ids the scroll with the filter on *)
(* source_id finds that the batch did not deliver for that source_id.      *)
StaleIds(collection, chunks, source_id) ==
    {p.chunk_id : p \in {q \in collection :
        /\ q.source_id = source_id
        /\ ~\E k \in 1..Len(chunks) :
              chunks[k].source_id = source_id /\ chunks[k].chunk_id = q.chunk_id}}

(* _cleanup_stale: the stale ids of every source_id of the chunks, the     *)
(* collection after their deletion, and total_stale.                       *)
_cleanup_stale(collection, chunks) ==
    LET sources == {chunks[k].source_id : k \in 1..Len(chunks)}
        stale == UNION {StaleIds(collection, chunks, s) : s \in sources}
    IN [collection |-> DeletePoints(collection, stale),
        deleted |-> stale,
        total_stale |-> Cardinality(stale)]

UploadResult(requested, dedupe, classes, stale_deleted) ==
    [requested |-> requested,
     ingested |-> Len(classes.changed) + Len(classes.new),
     duplicates |-> dedupe.duplicates,
     unchanged |-> Len(classes.unchanged),
     changed |-> Len(classes.changed),
     new |-> Len(classes.new),
     stale_deleted |-> stale_deleted]

(* The calls upload_chunks makes before the cleanup *)
UploadCalls(unique, classes) ==
    <<BackendCall("retrieve_points", ChunkIdsOf(unique))>>
    \o (IF classes.changed \o classes.new # <<>>
        THEN <<BackendCall("embed_texts", classes.changed \o classes.new),
               BackendCall("upsert_points", classes.changed \o classes.new)>>
        ELSE <<>>)
    \o (IF classes.unchanged # <<>>
        THEN <<BackendCall("set_payload", classes.unchanged)>> ELSE <<>>)
    \o <<BackendCall("mirror.upsert_chunks", unique)>>

(* IngestionService.upload_chunks(collection, chunks, skip_cleanup) *)
UploadChunks ==
    /\ op = NoCall
    /\ \E chunks \in Batches, skip_cleanup \in BOOLEAN :
         LET dedupe == _dedupe_chunks(chunks)
             unique == dedupe.deduped
             classes == _classify_chunks(unique, _fetch_existing(points, unique))
             written == WritePoints(WritePoints(points, classes.changed \o classes.new),
                                    classes.unchanged)
             cleanup == _cleanup_stale(written, unique)
         IN /\ op' = [name |-> "upload_chunks", chunks |-> chunks, skip_cleanup |-> skip_cleanup]
            /\ IF chunks = <<>>
               THEN /\ ret' = Raised("at least one chunk is required")
                    /\ effects' = <<>>
                    /\ UNCHANGED points
               ELSE IF skip_cleanup
               THEN /\ ret' = Returned(UploadResult(Len(chunks), dedupe, classes, 0))
                    /\ effects' = UploadCalls(unique, classes)
                    /\ points' = written
               ELSE /\ ret' = Returned(UploadResult(Len(chunks), dedupe, classes,
                                                    cleanup.total_stale))
                    /\ effects' = UploadCalls(unique, classes)
                                  \o (IF cleanup.deleted # {}
                                      THEN <<BackendCall("delete_points", cleanup.deleted)>>
                                      ELSE <<>>)
                    /\ points' = cleanup.collection
    /\ UNCHANGED <<events, missing_prompts>>
    /\ UNCHANGED chatVars
    /\ UNCHANGED graphVars
    /\ UNCHANGED cascadeVars
    /\ UNCHANGED apiVars

(* ---- POST delete-chunk-ids ---- *)
BlankIds == {"", " "}

RequestChunkIds == UNION {[1..n -> {"a", "z"} \cup BlankIds] : n \in 0..MaxBatch}

DeleteRequests ==
    [chunk_ids : RequestChunkIds, dry_run : BOOLEAN, limit : {None} \cup 0..MaxBatch]

(* [cid for cid in request.chunk_ids if isinstance(cid, str) and cid.strip()] *)
NonBlankIds(chunk_ids) == SelectSeq(chunk_ids, LAMBDA cid : cid \notin BlankIds)

ExceedsLimit_UnlessDryRun(req, chunk_ids) ==
    ~req.dry_run /\ req.limit # None /\ Len(chunk_ids) > req.limit

(* request.limit is not None and len(chunk_ids) > request.limit *)
ExceedsLimit(req, chunk_ids) == req.limit # None /\ Len(chunk_ids) > req.limit

DeleteChunkIdsResponse(matched, deleted, dry_run) ==
    [matched |-> matched, deleted |-> deleted, dry_run |-> dry_run]

(* The endpoint, and IngestionService.delete_chunks behind it *)
DeleteChunkIds ==
    /\ op = NoCall
    /\ \E req \in DeleteRequests :
         LET chunk_ids == NonBlankIds(req.chunk_ids)
             id_set == {chunk_ids[k] : k \in 1..Len(chunk_ids)}
         IN /\ op' = [name |-> "delete_chunk_ids", request |-> req]
            /\ IF ExceedsLimit(req, chunk_ids)
               THEN /\ ret' = Raised(HTTPException(400, "exceeds safety limit"))
                    /\ effects' = <<>>
                    /\ UNCHANGED points
               ELSE IF req.dry_run
               THEN /\ ret' = Returned(DeleteChunkIdsResponse(Len(chunk_ids), 0, TRUE))
                    /\ effects' = <<>>
                    /\ UNCHANGED points
               ELSE IF chunk_ids = <<>>
               THEN /\ ret' = Returned(DeleteChunkIdsResponse(0, 0, FALSE))
                    /\ effects' = <<>>
                    /\ UNCHANGED points
               ELSE /\ ret' = Returned(DeleteChunkIdsResponse(Len(chunk_ids), Len(chunk_ids), FALSE))
                    /\ effects' = <<BackendCall("delete_points", id_set),
                                    BackendCall("mirror.delete_chunks", id_set)>>
                    /\ points' = DeletePoints(points, id_set)
    /\ UNCHANGED <<events, missing_prompts>>
    /\ UNCHANGED chatVars
    /\ UNCHANGED graphVars
    /\ UNCHANGED cascadeVars
    /\ UNCHANGED apiVars

IngestInit ==
    /\ op = NoCall
    /\ ret = NoReturn
    /\ effects = <<>>
    (* the retrieval part of the state is at rest *)
    /\ settings = [use_hybrid_retrieval |-> FALSE, hybrid_fallback_on_thin |-> FALSE]
    /\ qdrant_client = [dense |-> <<>>, sparse |-> <<>>]
    /\ sparse_only = FALSE
    /\ hybrid = FALSE
    /\ k_base = 0
    /\ widen_to = 0
    /\ k_final = 0
    /\ cfg = [hybrid_k_dense |-> 0, hybrid_k_sparse |-> 0, hybrid_k_fused |-> 0]
    /\ wpc = "idle"
    /\ mode = "none"
    /\ pass = 0
    /\ hits = <<>>
    /\ reranked = <<>>
    /\ widened_hits = <<>>
    /\ base = NoPath
    /\ chosen = NoRetrieval
    /\ first_pass = <<>>
    /\ calls = <<>>
    /\ ingestions = 0
    (* no event is recorded, no prompt file is missing; the collection is in any state *)
    /\ events = {}
    /\ missing_prompts = {}
    /\ points \in Collections
    (* no request is being served *)
    /\ request = [endpoint |-> "none"]
    /\ env = [backend |-> "up", store |-> "up"]
    /\ response = [status |-> 0, detail |-> ""]
    /\ reported = {}
    (* the wrapper part of the state is at rest *)
    /\ client = "DeepSeekClient"
    /\ retries = 0
    /\ min_chars = None
    /\ require_sentence_end = TRUE
    /\ now = 0
    /\ nonce = 0
    /\ result = Unset
    /\ completion = Unset
    /\ lastSent = <<>>
    /\ attempt = 0
    /\ delay = 0
    /\ exc = NoError
    /\ cpc = "idle"
    /\ returned = <<>>
    /\ raised = NoError
    /\ runs = 0
    /\ chatCalls = 0
    /\ sleeps = 0
    /\ firstNonces = <<>>
    (* the graph part of the state is at rest *)
    /\ graph = "none"
    /\ worldviews = <<>>
    /\ max_concurrency = 0
    /\ gpc = "idle"
    /\ semaphore = [value |-> 0, waiters |-> <<>>]
    /\ tpc = <<>>
    /\ locals = <<>>
    /\ answers = <<>>
    /\ results_map = <<>>
    /\ recorder = "GraphEventRecorder"
    /\ outcome = NoOutcome
    /\ finished = <<>>
    /\ unitRuns = <<>>
    /\ queued = {}

IngestNext ==
    \/ UploadChunks
    \/ DeleteChunkIds

SpecIngest == IngestInit /\ [][IngestNext]_vars


(***************************************************************************)
(* Properties of upload_chunks and of the delete-chunk-ids endpoint        *)
(***************************************************************************)
(* The call that is made in this step *)
UploadStep == op = NoCall /\ op'.name = "upload_chunks"

(* The chunk at position k repeats the (chunk_id, content_hash) pair of an *)
(* earlier chunk of the batch.                                             *)
RepeatsEarlier(batch, k) ==
    \E j \in 1..(k - 1) :
        batch[j].chunk_id = batch[k].chunk_id /\ batch[j].content_hash = batch[k].content_hash

RECURSIVE FirstOccurrences(_, _)
FirstOccurrences(batch, k) ==
    IF k = 0 THEN <<>>
    ELSE IF RepeatsEarlier(batch, k) THEN FirstOccurrences(batch, k - 1)
    ELSE Append(FirstOccurrences(batch, k - 1), batch[k])

(* The collection holds the chunk id of c with the content hash of c *)
StoredUnchanged(collection, c) ==
    \E p \in collection : p.chunk_id = c.chunk_id /\ p.content_hash = c.content_hash

CallsNamed(calls_made, name) == SelectSeq(calls_made, LAMBDA x : x.call = name)

ElementsOf(seq) == {seq[k] : k \in 1..Len(seq)}

(* C32: for a non-empty batch upload_chunks reports requested = number of  *)
(* chunks, duplicates = number of chunks that repeat the (chunk_id,        *)
(* content_hash) pair of an earlier chunk, unchanged + changed + new +     *)
(* duplicates = requested and ingested = changed + new; it embeds and      *)
(* upserts the changed and new chunks only and writes all unique chunks to *)
(* the mirror; an empty batch raises ValueError without a backend call.    *)
C32_UploadCounts ==
    [][UploadStep =>
        LET batch == op'.chunks
            res == ret'.value
            unique == FirstOccurrences(batch, Len(batch))
            to_embed == {c \in ElementsOf(unique) : ~StoredUnchanged(points, c)}
        IN IF batch = <<>>
           THEN /\ ret' = Raised("at least one chunk is required")
                /\ effects' = <<>>
                /\ points' = points
           ELSE /\ ret'.status = "returned"
                /\ res.requested = Len(batch)
                /\ res.duplicates = Cardinality({k \in 1..Len(batch) : RepeatsEarlier(batch, k)})
                /\ res.unchanged + res.changed + res.new + res.duplicates = res.requested
                /\ res.ingested = res.changed + res.new
                /\ \A name \in {"embed_texts", "upsert_points"} :
                     IF to_embed = {} THEN CallsNamed(effects', name) = <<>>
                     ELSE /\ Len(CallsNamed(effects', name)) = 1
                          /\ ElementsOf(CallsNamed(effects', name)[1].arg) = to_embed
                          /\ Len(CallsNamed(effects', name)[1].arg) = res.ingested
                /\ CallsNamed(effects', "mirror.upsert_chunks")
                     = <<BackendCall("mirror.upsert_chunks", unique)>>]_vars

(* A batch with a duplicate, an unchanged chunk and a chunk to embed *)
C32_Witness ==
    /\ op.name = "upload_chunks"
    /\ ret.status = "returned"
    /\ ret.value.duplicates > 0
    /\ ret.value.unchanged > 0
    /\ ret.value.ingested > 0

(* C33: after upload_chunks with skip_cleanup = False the collection holds *)
(* no chunk of a source_id of the batch whose chunk_id was not part of the *)
(* batch, stale_deleted counts the chunks deleted for that, and the chunks *)
(* of source_ids that are not in the batch are untouched; with             *)
(* skip_cleanup = True no point is deleted.                                *)
C33_StaleCleanup ==
    [][(UploadStep /\ ret'.status = "returned") =>
        LET batch == op'.chunks
            ids == {batch[k].chunk_id : k \in 1..Len(batch)}
            sources == {batch[k].source_id : k \in 1..Len(batch)}
        IN IF op'.skip_cleanup
           THEN /\ \A p \in points : \E q \in points' : q.chunk_id = p.chunk_id
                /\ ret'.value.stale_deleted = 0
           ELSE /\ \A q \in points' : q.source_id \in sources => q.chunk_id \in ids
                /\ ret'.value.stale_deleted
                     = Cardinality({p \in points : p.source_id \in sources /\ p.chunk_id \notin ids})
                /\ \A p \in points : p.source_id \notin sources => p \in points']_vars

(* The ids of a request that are not blank *)
GivenNonBlank(req) == {k \in 1..Len(req.chunk_ids) : req.chunk_ids[k] \notin BlankIds}

(* The statement of C34 with the ids counted as given: a dry run reports   *)
(* matched = number of given ids, and a request with more ids than the     *)
(* limit is rejected with 400.                                             *)
C34_Original ==
    (op.name = "delete_chunk_ids") =>
        /\ (op.request.limit # None /\ Len(op.request.chunk_ids) > op.request.limit)
             => (ret.status = "raised" /\ ret.error.status = 400 /\ effects = <<>>)
        /\ (op.request.dry_run /\ ret.status = "returned")
             => (/\ ret.value.matched = Len(op.request.chunk_ids)
                 /\ ret.value.deleted = 0
                 /\ effects = <<>>)

(* C34 (amended): the endpoint never deletes on a dry run (matched =       *)
(* number of given non-blank ids, deleted = 0, no call of the service's    *)
(* delete), and rejects with 400 any request whose number of non-blank ids *)
(* exceeds the safety limit before any deletion, also when dry_run is set. *)
C34_DryRunAndLimit ==
    (op.name = "delete_chunk_ids") =>
        /\ (op.request.limit # None /\ Cardinality(GivenNonBlank(op.request)) > op.request.limit)
             => (ret.status = "raised" /\ ret.error.status = 400 /\ effects = <<>>)
        /\ op.request.dry_run => effects = <<>>
        /\ (op.request.dry_run /\ ret.status = "returned")
             => (/\ ret.value.matched = Cardinality(GivenNonBlank(op.request))
                 /\ ret.value.deleted = 0
                 /\ ret.value.dry_run)

(* A dry run over blank and non-blank ids that is over the limit, and so   *)
(* rejected.                                                               *)
C34_Witness ==
    /\ op.name = "delete_chunk_ids"
    /\ op.request.dry_run
    /\ op.request.limit # None
    /\ Cardinality(GivenNonBlank(op.request)) > op.request.limit
    /\ Cardinality(GivenNonBlank(op.request)) < Len(op.request.chunk_ids)
    /\ ret.status = "raised"

====
